---- MODULE Spec2Model ----
(***************************************************************************)
(* LuaWeb: the HTTP pipeline (Server: routes, middleware chain, static     *)
(* mounts), the database bridge supervisor (DatabaseBridge) and the        *)
(* companion storage process (database/server.js).                         *)
(*                                                                         *)
(* Strings are sequences of one-character strings; "index.html" is kept    *)
(* as a single atom (it contains neither '/' nor "..").                    *)
(***************************************************************************)
EXTENDS Integers, Sequences, FiniteSets, TLC

VARIABLES
    routes_,          \* Server::routes_   (registration order)
    middlewares_,     \* Server::middlewares_ (registration order)
    static_mounts_,   \* Server::static_mounts_ (registration order)
    served,           \* TRUE once handle_client has dispatched a request
    req,              \* the Request of the last dispatched connection
    res,              \* the Response of the last dispatched connection
    trace,            \* what ran during that dispatch, in order
    handlerKind,      \* what the invoked route handler does (input)
    mwBehaviour,      \* what each interceptor does (input)
    files,            \* regular files present on disk during the request
    port_,            \* DatabaseBridge::port_
    bridge_pid_,      \* DatabaseBridge::bridge_pid_
    running_,         \* DatabaseBridge::running_
    procs,            \* processes forked by the bridge: [port, state]
    bound,            \* who listens on each loopback port
    pc,               \* where each caller of start() is
    poll_i,           \* start(): the loop counter i of each caller (0 outside the call)
    pid,              \* start(): the local pid of each caller (0 outside the call)
    ret,              \* what each caller's last start() returned
    health,           \* the last /health response check_health looked at
    report,           \* what the current or last start() wrote to std::cerr
    databases,        \* server.js databases, per forked process
    absolutePathsInUse, \* server.js absolutePathsInUse, per forked process
    dbIdCounter,      \* server.js dbIdCounter, per forked process
    handles,          \* the Database objects built so far: db_id_, path_, last_error_
    call,             \* the Database operation that is inside start()
    response,         \* the last body http_post or request() returned
    fleet,            \* two Bridge Instances, each with its own companion
    service,          \* one companion process and the requests of its clients
    rpcs,             \* the requests posted by the current or last operation
    result,           \* what exec/query returned ("zero" or "data") when it
                      \* was the last operation, else "none"
    db_result,        \* the rows query returned when it was the last operation
    run_pc,           \* where Server::run is
    server_running_,  \* Server::running_
    server_fd_,       \* Server::server_fd_ (-1: no socket)
    conns,            \* the connections run() accepted, in order, and what
                      \* handle_client did with each
    stop_pc,          \* where a caller of Server::stop outside run() is
    since_stop        \* polls and accepts of run() since running_ was cleared

dispatchVars == <<routes_, middlewares_, static_mounts_, served, req, res,
                  trace, handlerKind, mwBehaviour, files>>

loopVars == <<run_pc, server_running_, server_fd_, conns, stop_pc, since_stop>>

pipelineVars == <<dispatchVars, loopVars>>

bridgeVars == <<port_, bridge_pid_, running_, procs, bound, pc, poll_i, pid,
                ret, health, report>>

companionVars == <<databases, absolutePathsInUse, dbIdCounter>>

storageVars == <<companionVars, handles, call, response, rpcs, result,
                 db_result>>

fleetVars == <<fleet, service>>

vars == <<pipelineVars, bridgeVars, storageVars, fleetVars>>

\* ------------------------------------------------------------------------
\* Bounds
\* ------------------------------------------------------------------------
MaxRoutes == 2
MaxMiddlewares == 2
MaxMounts == 2
MaxLaunches == 2
\* Poll turns per start() when two threads race. A failed poll changes
\* nothing but the loop counter, so the interleavings of the 50-turn loop
\* reach the same bridge and process states as those of a short loop.
RacePolls == 2
MaxHandles == 2
\* Longest pattern and longest path, after the leading '/', that the
\* matcher is tried on.
MaxPattern == 3
MaxPath == 3
\* Connections run() accepts before the clients stop connecting.
MaxConnections == 2

\* ------------------------------------------------------------------------
\* String helpers
\* ------------------------------------------------------------------------
Max(S) == CHOOSE x \in S : \A y \in S : y <= x

Min(S) == CHOOSE x \in S : \A y \in S : x <= y

Suffix(s, n) == SubSeq(s, n + 1, Len(s))

\* std::string::find(p) == 0
StartsWith(s, p) == Len(p) <= Len(s) /\ SubSeq(s, 1, Len(p)) = p

\* std::string::find("..") != npos
ContainsDotDot(s) == \E i \in 1..(Len(s) - 1) : s[i] = "." /\ s[i + 1] = "."

\* ------------------------------------------------------------------------
\* Pattern compiler and matcher
\* ------------------------------------------------------------------------
\* end index of the parameter name that starts after the ':' at position i
RECURSIVE ParamEnd(_, _)
ParamEnd(pattern, i) ==
    IF i + 1 <= Len(pattern) /\ pattern[i + 1] # "/"
    THEN ParamEnd(pattern, i + 1)
    ELSE i

\* the characters compile_pattern puts a backslash in front of
SpecialChars == {".", "[", "{", "}", "(", ")", "*", "+", "?", "|", "^", "$",
                 "\\"}

\* a compiler that copies every literal character as it is
EscapeNothing(c) == <<c>>

\* what compile_pattern appends to regex_str for the literal character c
Escape(c) == IF c \in SpecialChars THEN <<"\\", c>> ELSE <<c>>

\* ECMAScript: what one atom of the expression accepts. An escaped
\* character stands for itself, a bare '.' for any character that is not
\* a line terminator, any other character for itself.
LineTerminators == {"\n", "\r"}

AtomMatches(atom, ch) ==
    IF Len(atom) = 2 THEN ch = atom[2]
    ELSE IF atom = <<".">> THEN ch \notin LineTerminators
    ELSE ch = atom[1]

\* The compiled matcher is a sequence of tokens between '^' and '$':
\*   "param" is ([^/]+), "wild" is .*, "lit" is one literal character as
\*   it was written into regex_str.
RECURSIVE CompileFrom(_, _)
CompileFrom(pattern, i) ==
    IF i > Len(pattern) THEN [regex |-> <<>>, param_names |-> <<>>]
    ELSE IF pattern[i] = ":" THEN
        LET e == ParamEnd(pattern, i)
            rest == CompileFrom(pattern, e + 1)
        IN [regex |-> <<[t |-> "param", c |-> <<>>]>> \o rest.regex,
            param_names |-> <<SubSeq(pattern, i + 1, e)>> \o rest.param_names]
    ELSE IF pattern[i] = "*" THEN
        LET rest == CompileFrom(pattern, i + 1)
        IN [regex |-> <<[t |-> "wild", c |-> <<>>]>> \o rest.regex,
            param_names |-> rest.param_names]
    ELSE
        LET rest == CompileFrom(pattern, i + 1)
        IN [regex |-> <<[t |-> "lit", c |-> Escape(pattern[i])]>> \o rest.regex,
            param_names |-> rest.param_names]

compile_pattern(pattern) == CompileFrom(pattern, 1)

\* std::regex_match of the whole path (ECMAScript backtracking, greedy
\* groups): ok says whether it matches, caps are the capture groups.
RECURSIVE RegexMatch(_, _)
RegexMatch(regex, s) ==
    IF regex = <<>> THEN [ok |-> s = <<>>, caps |-> <<>>]
    ELSE
        LET tok == Head(regex)
            rest == Tail(regex)
        IN IF tok.t = "lit" THEN
               IF s # <<>> /\ AtomMatches(tok.c, s[1])
               THEN RegexMatch(rest, Tail(s))
               ELSE [ok |-> FALSE, caps |-> <<>>]
           ELSE IF tok.t = "param" THEN
               LET ks == {k \in 1..Len(s) :
                             /\ \A j \in 1..k : s[j] # "/"
                             /\ RegexMatch(rest, Suffix(s, k)).ok}
               IN IF ks = {} THEN [ok |-> FALSE, caps |-> <<>>]
                  ELSE LET k == Max(ks)
                       IN [ok |-> TRUE,
                           caps |-> <<SubSeq(s, 1, k)>>
                                    \o RegexMatch(rest, Suffix(s, k)).caps]
           ELSE
               LET ks == {k \in 0..Len(s) :
                             /\ \A j \in 1..k : s[j] \notin LineTerminators
                             /\ RegexMatch(rest, Suffix(s, k)).ok}
               IN IF ks = {} THEN [ok |-> FALSE, caps |-> <<>>]
                  ELSE RegexMatch(rest, Suffix(s, Max(ks)))

\* Server::match_route: on a match, params[name_i] = group i
match_route(route, path, params) ==
    LET m == RegexMatch(route.regex, path)
        n == IF Len(route.param_names) < Len(m.caps)
             THEN Len(route.param_names) ELSE Len(m.caps)
        names == {route.param_names[i] : i \in 1..n}
    IN [ok |-> m.ok,
        params |-> IF m.ok
                   THEN [nm \in (DOMAIN params) \cup names |->
                            IF nm \in names
                            THEN m.caps[Max({i \in 1..n : route.param_names[i] = nm})]
                            ELSE params[nm]]
                   ELSE params]

\* ------------------------------------------------------------------------
\* Response and the record of one dispatch
\* ------------------------------------------------------------------------
Methods == {"GET", "POST"}

\* What a registered route handler does when it is invoked:
\*  plain          writes the response and returns (C++ handler, res.text)
\*  send           writes the response and marks it sent (Lua res:send)
\*  std_exception  throws a std::exception carrying a message
\*  other_throw    throws a value that is not a std::exception
\*  lua_error      Lua-registered handler whose script raises an error
HandlerKinds == {"plain", "send", "std_exception", "other_throw", "lua_error"}

\* What an interceptor does, as the order of its calls: "send" marks the
\* response sent (res:status(401):send), "next" calls the continuation,
\* "throw" raises a std::exception.
MwBehaviours == {<<>>, <<"next">>, <<"send">>, <<"send", "next">>,
                 <<"next", "next">>, <<"next", "send">>}

NoFile == <<>>

NoBody == [by |-> "none", idx |-> 0, msg |-> ""]

\* The running state of one dispatch_request call: the Response, the
\* request's params, the exception in flight and the stages entered so far.
NewDispatch == [status |-> 200, body |-> NoBody, sent |-> FALSE,
                params |-> <<>>, exc |-> "none", events |-> <<>>]

Ev(kind, idx, file, st) ==
    [kind |-> kind, idx |-> idx, file |-> file, sentBefore |-> st.sent]

Log(st, kind, idx, file) ==
    [st EXCEPT !.events = Append(@, Ev(kind, idx, file, st))]

\* res.status(code).text(...)
StatusText(st, code, body) == [st EXCEPT !.status = code, !.body = body]

\* ------------------------------------------------------------------------
\* Static resolver
\* ------------------------------------------------------------------------
IndexHtml == <<"/", "index.html">>

\* The file system as the resolver sees it: the paths that exist as regular
\* files, each with the outcome of opening it for reading ("open" or
\* "denied").
EmptyDisk == [f \in {} |-> "open"]

\* std::filesystem::exists(file_path) && std::filesystem::is_regular_file(file_path)
is_regular_file(disk, file_path) == file_path \in DOMAIN disk

\* std::ifstream file(file_path, std::ios::binary); if (file)
ifstream(disk, file_path) == disk[file_path] = "open"

\* Server::serve_static: the directory as stored in the mount
MountDirectory(directory) ==
    IF directory # <<>> /\ directory[Len(directory)] = "/"
    THEN SubSeq(directory, 1, Len(directory) - 1)
    ELSE directory

\* a remainder that is used as it is
RelativePathRaw(mount, path) == Suffix(path, Len(mount.url_prefix))

\* the part of the request path after the mount's prefix
RelativePath(mount, path) ==
    LET rel == Suffix(path, Len(mount.url_prefix))
    IN IF rel = <<>> \/ rel = <<"/">> THEN IndexHtml ELSE rel

\* a mount loop without the traversal check
RECURSIVE TryMountsNoCheck(_, _, _)
TryMountsNoCheck(m, cx, st) ==
    IF m > Len(static_mounts_) THEN [handled |-> FALSE, st |-> st]
    ELSE
        LET mount == static_mounts_[m]
            file_path == mount.directory \o RelativePath(mount, cx.path)
        IN IF /\ StartsWith(cx.path, mount.url_prefix)
              /\ is_regular_file(cx.files, file_path)
              /\ ifstream(cx.files, file_path)
           THEN [handled |-> TRUE,
                 st |-> [Log(st, "read", m, file_path) EXCEPT
                             !.body = [by |-> "file", idx |-> m, msg |-> ""],
                             !.sent = TRUE]]
           ELSE TryMountsNoCheck(m + 1, cx, st)

\* Server::try_serve_static, the loop from mount m on
RECURSIVE TryMounts(_, _, _)
TryMounts(m, cx, st) ==
    IF m > Len(static_mounts_) THEN [handled |-> FALSE, st |-> st]
    ELSE
        LET mount == static_mounts_[m]
        IN IF ~StartsWith(cx.path, mount.url_prefix)
           THEN TryMounts(m + 1, cx, st)
           ELSE
               LET relative_path == RelativePath(mount, cx.path)
                   file_path == mount.directory \o relative_path
               IN IF ContainsDotDot(relative_path)
                  THEN [handled |-> TRUE,
                        st |-> StatusText(Log(st, "forbidden", m, NoFile), 403,
                                          [by |-> "forbidden", idx |-> m, msg |-> ""])]
                  ELSE IF /\ is_regular_file(cx.files, file_path)
                          /\ ifstream(cx.files, file_path)
                  THEN [handled |-> TRUE,
                        st |-> [Log(st, "read", m, file_path) EXCEPT
                                    !.body = [by |-> "file", idx |-> m, msg |-> ""],
                                    !.sent = TRUE]]
                  ELSE TryMounts(m + 1, cx, st)

try_serve_static(cx, st) == TryMounts(1, cx, Log(st, "static", 0, NoFile))

\* ------------------------------------------------------------------------
\* Router
\* ------------------------------------------------------------------------
\* route.handler(req, res) inside the try/catch of dispatch_request
InvokeHandler(k, cx, st0) ==
    LET st == Log(st0, "handler", k, NoFile)
    IN CASE cx.hk = "plain" ->
              [st EXCEPT !.body = [by |-> "handler", idx |-> k, msg |-> ""]]
         [] cx.hk = "send" ->
              [st EXCEPT !.body = [by |-> "handler", idx |-> k, msg |-> ""],
                         !.sent = TRUE]
         [] cx.hk = "std_exception" ->
              StatusText(st, 500, [by |-> "fault", idx |-> k, msg |-> "what"])
         [] cx.hk = "other_throw" ->
              [st EXCEPT !.exc = "other"]
         [] OTHER ->
              StatusText(st, 500, [by |-> "fault", idx |-> k, msg |-> ""])

\* a route loop that lets the last matching route win
MatchRoutesLast(k, cx, st) ==
    LET M == {j \in k..Len(routes_) :
                 /\ routes_[j].method = cx.method
                 /\ match_route(routes_[j], cx.path, st.params).ok}
    IN IF M = {}
       THEN StatusText(Log(st, "notfound", 0, NoFile), 404,
                       [by |-> "notfound", idx |-> 0, msg |-> ""])
       ELSE InvokeHandler(Max(M), cx,
                [st EXCEPT !.params =
                     match_route(routes_[Max(M)], cx.path, st.params).params])

\* a route loop that does not compare the methods
MatchRoutesAnyMethod(k, cx, st) ==
    LET M == {j \in k..Len(routes_) :
                 match_route(routes_[j], cx.path, st.params).ok}
    IN IF M = {}
       THEN StatusText(Log(st, "notfound", 0, NoFile), 404,
                       [by |-> "notfound", idx |-> 0, msg |-> ""])
       ELSE InvokeHandler(Min(M), cx,
                [st EXCEPT !.params =
                     match_route(routes_[Min(M)], cx.path, st.params).params])

\* the route loop of dispatch_request, from route k on
RECURSIVE MatchRoutes(_, _, _)
MatchRoutes(k, cx, st) ==
    IF k > Len(routes_)
    THEN StatusText(Log(st, "notfound", 0, NoFile), 404,
                    [by |-> "notfound", idx |-> 0, msg |-> ""])
    ELSE IF routes_[k].method # cx.method THEN MatchRoutes(k + 1, cx, st)
    ELSE
        LET m == match_route(routes_[k], cx.path, st.params)
        IN IF m.ok
           THEN InvokeHandler(k, cx, [st EXCEPT !.params = m.params])
           ELSE MatchRoutes(k + 1, cx, st)

\* the final handler passed to run_middleware_chain by dispatch_request
FinalHandler(cx, st) ==
    IF st.sent THEN st
    ELSE IF cx.method = "GET"
    THEN LET s == try_serve_static(cx, st)
         IN IF s.handled THEN s.st
            ELSE MatchRoutes(1, cx, Log(s.st, "router", 0, NoFile))
    ELSE MatchRoutes(1, cx, Log(st, "router", 0, NoFile))

\* ------------------------------------------------------------------------
\* Middleware chain
\* ------------------------------------------------------------------------
RECURSIVE run_middleware_chain(_, _, _), ExecMiddleware(_, _, _, _)

\* middlewares_[index](req, res, next): the interceptor's remaining steps
ExecMiddleware(index, steps, cx, st) ==
    IF steps = <<>> \/ st.exc # "none" THEN st
    ELSE LET after ==
               CASE Head(steps) = "send" ->
                      [Log(st, "mw_send", index, NoFile) EXCEPT
                          !.status = 401,
                          !.body = [by |-> "mw", idx |-> index, msg |-> ""],
                          !.sent = TRUE]
                 [] Head(steps) = "next" ->
                      run_middleware_chain(index + 1, cx,
                                           Log(st, "next", index, NoFile))
                 [] OTHER -> [st EXCEPT !.exc = "std"]
         IN ExecMiddleware(index, Tail(steps), cx, after)

\* a chain that goes on to the next interceptor by itself
RunChainAuto(index, cx, st) ==
    IF index > Len(middlewares_) THEN FinalHandler(cx, st)
    ELSE LET after == ExecMiddleware(index, cx.mwb[index], cx,
                                     Log(st, "mw", index, NoFile))
         IN IF after.exc = "none"
            THEN run_middleware_chain(index + 1, cx, after)
            ELSE after

\* a chain without the sent check
RunChainUnguarded(index, cx, st) ==
    IF index > Len(middlewares_) THEN FinalHandler(cx, st)
    ELSE ExecMiddleware(index, cx.mwb[index], cx, Log(st, "mw", index, NoFile))

run_middleware_chain(index, cx, st) ==
    IF index > Len(middlewares_) THEN FinalHandler(cx, st)
    ELSE IF st.sent THEN st
    ELSE ExecMiddleware(index, cx.mwb[index], cx, Log(st, "mw", index, NoFile))

\* a dispatch that enters the chain behind the first interceptor
DispatchBehindFirst(cx) == run_middleware_chain(2, cx, NewDispatch)

\* Server::dispatch_request
dispatch_request(cx) == run_middleware_chain(1, cx, NewDispatch)

\* ------------------------------------------------------------------------
\* Pipeline: initial state and operations
\* ------------------------------------------------------------------------
NoRequest == [method |-> "", path |-> <<>>, params |-> <<>>]

PipelineInit ==
    /\ routes_ = <<>>
    /\ middlewares_ = <<>>
    /\ static_mounts_ = <<>>
    /\ served = FALSE
    /\ req = NoRequest
    /\ res = [status |-> 200, body |-> NoBody, sent |-> FALSE, exc |-> "none"]
    /\ trace = <<>>
    /\ handlerKind = "plain"
    /\ mwBehaviour = <<>>
    /\ files = EmptyDisk

\* Server::route (registration happens while no request is being handled)
route(method, path) ==
    /\ ~served
    /\ Len(routes_) < MaxRoutes
    /\ LET c == compile_pattern(path)
       IN routes_' = Append(routes_,
              [method |-> method, pattern |-> path, regex |-> c.regex,
               param_names |-> c.param_names, handler |-> Len(routes_) + 1])
    /\ UNCHANGED <<middlewares_, static_mounts_, served, req, res, trace,
                   handlerKind, mwBehaviour, files>>
    /\ UNCHANGED <<loopVars, bridgeVars, storageVars, fleetVars>>

\* Server::use
use ==
    /\ ~served
    /\ Len(middlewares_) < MaxMiddlewares
    /\ middlewares_' = Append(middlewares_, Len(middlewares_) + 1)
    /\ UNCHANGED <<routes_, static_mounts_, served, req, res, trace,
                   handlerKind, mwBehaviour, files>>
    /\ UNCHANGED <<loopVars, bridgeVars, storageVars, fleetVars>>

\* Server::serve_static
serve_static(url_prefix, directory) ==
    /\ ~served
    /\ Len(static_mounts_) < MaxMounts
    /\ static_mounts_' = Append(static_mounts_,
           [url_prefix |-> url_prefix, directory |-> MountDirectory(directory)])
    /\ UNCHANGED <<routes_, middlewares_, served, req, res, trace,
                   handlerKind, mwBehaviour, files>>
    /\ UNCHANGED <<loopVars, bridgeVars, storageVars, fleetVars>>

\* Server::handle_client for a connection whose read returned a request
handle_client(method, path, hk, mwb, fs) ==
    LET cx == [method |-> method, path |-> path, hk |-> hk, mwb |-> mwb,
               files |-> fs]
        out == dispatch_request(cx)
    IN /\ ~served
       /\ served' = TRUE
       /\ req' = [method |-> method, path |-> path, params |-> out.params]
       /\ res' = [status |-> out.status, body |-> out.body, sent |-> out.sent,
                  exc |-> out.exc]
       /\ trace' = out.events
       /\ handlerKind' = hk
       /\ mwBehaviour' = mwb
       /\ files' = fs
       /\ UNCHANGED <<routes_, middlewares_, static_mounts_>>
       /\ UNCHANGED <<loopVars, bridgeVars, storageVars, fleetVars>>

\* Server::run, next turn of the accept loop: the connection is closed and
\* its Request and Response are gone
next_connection ==
    /\ served
    /\ served' = FALSE
    /\ req' = NoRequest
    /\ res' = [status |-> 200, body |-> NoBody, sent |-> FALSE, exc |-> "none"]
    /\ trace' = <<>>
    /\ handlerKind' = "plain"
    /\ mwBehaviour' = <<>>
    /\ files' = EmptyDisk
    /\ UNCHANGED <<routes_, middlewares_, static_mounts_>>
    /\ UNCHANGED <<loopVars, bridgeVars, storageVars, fleetVars>>

\* ------------------------------------------------------------------------
\* Connection loop (Server::run, Server::stop, Server::handle_client)
\* ------------------------------------------------------------------------
\* the descriptor socket() returns to bind_socket
ListenFd == 3

\* Server::Server: server_fd_(-1), running_(false)
LoopInit ==
    /\ run_pc = "idle"
    /\ server_running_ = FALSE
    /\ server_fd_ = -1
    /\ conns = <<>>
    /\ stop_pc = "idle"
    /\ since_stop = [polls |-> 0, accepts |-> 0]

\* an accepted connection before handle_client has read from it
Accepted ==
    [bytes |-> "unread", parsed |-> 0, ran |-> 0, staged |-> FALSE,
     status |-> 0, built |-> 0, written |-> 0, delivered |-> "nothing",
     closed |-> FALSE, escaped |-> FALSE]

\* What the read of handle_client leaves in raw_request: nothing when
\* select timed out ("timeout") or read returned 0 or -1 ("none"), and
\* nothing either when the bytes read start with a NUL character ("nul"),
\* because raw_request = buffer copies a C string.
Reads == {"timeout", "none", "nul", "data"}

raw_request_empty(bytes) == bytes # "data"

\* a handle_client that does not test raw_request.empty()
HandleWithoutEmptyTest(bytes, cx, wrote) ==
    LET out == dispatch_request(cx)
    IN [Accepted EXCEPT !.bytes = bytes, !.parsed = 1, !.ran = 1,
                        !.staged = out.events # <<>>, !.status = out.status,
                        !.built = 1, !.written = 1, !.delivered = wrote,
                        !.closed = TRUE]

\* Server::handle_client on an accepted connection: bytes is what the read
\* gave, cx the request in it, wrote what write() did with the response.
\* An exception that leaves dispatch_request unwinds handle_client before
\* res.build(), write() and close(client_fd).
HandleClient(bytes, cx, wrote) ==
    IF raw_request_empty(bytes)
    THEN [Accepted EXCEPT !.bytes = bytes, !.closed = TRUE]
    ELSE LET out == dispatch_request(cx)
         IN IF out.exc # "none"
            THEN [Accepted EXCEPT !.bytes = bytes, !.parsed = 1, !.ran = 1,
                                  !.staged = out.events # <<>>,
                                  !.escaped = TRUE]
            ELSE [Accepted EXCEPT !.bytes = bytes, !.parsed = 1, !.ran = 1,
                                  !.staged = out.events # <<>>,
                                  !.status = out.status,
                                  !.built = 1, !.written = 1,
                                  !.delivered = wrote, !.closed = TRUE]

\* running_ = false, and what run() does from then on is counted
ClearRunning ==
    /\ server_running_' = FALSE
    /\ since_stop' = IF server_running_ THEN [polls |-> 0, accepts |-> 0]
                     ELSE since_stop

\* Server::run up to the loop: bind_socket() fails (socket, bind or listen)
\* and run returns false, or it succeeds and running_ = true
run_bind ==
    /\ run_pc = "idle"
    /\ \/ /\ run_pc' = "returned_false"
          /\ UNCHANGED <<server_running_, server_fd_>>
       \/ /\ run_pc' = "test"
          /\ server_fd_' = ListenFd
          /\ server_running_' = TRUE
    /\ UNCHANGED <<conns, stop_pc, since_stop>>
    /\ UNCHANGED <<dispatchVars, bridgeVars, storageVars, fleetVars>>

\* while (running_)
run_test ==
    /\ run_pc = "test"
    /\ run_pc' = IF server_running_ THEN "select" ELSE "returned_true"
    /\ UNCHANGED <<server_running_, server_fd_, conns, stop_pc, since_stop>>
    /\ UNCHANGED <<dispatchVars, bridgeVars, storageVars, fleetVars>>

\* FD_SET(server_fd_, &read_fds) and select(server_fd_ + 1, ...). With
\* server_fd_ = -1, FD_SET is undefined: a fortified build aborts the
\* process, another build goes on and select(0, ...) times out. With a
\* socket, select times out, is interrupted (EINTR), fails, or reports a
\* connection waiting.
run_select ==
    /\ run_pc = "select"
    /\ IF server_fd_ < 0
       THEN run_pc' \in {"test", "aborted"}
       ELSE \/ run_pc' = "test"
            \/ run_pc' = "returned_true"
            \/ Len(conns) < MaxConnections /\ run_pc' = "accept"
    /\ since_stop' = IF server_running_ THEN since_stop
                     ELSE [since_stop EXCEPT !.polls = @ + 1]
    /\ UNCHANGED <<server_running_, server_fd_, conns, stop_pc>>
    /\ UNCHANGED <<dispatchVars, bridgeVars, storageVars, fleetVars>>

\* accept(server_fd_, ...): a connection, or -1 (the socket was closed
\* meanwhile, the client went away, no descriptors left)
run_accept ==
    /\ run_pc = "accept"
    /\ \/ /\ server_fd_ >= 0
          /\ conns' = Append(conns, Accepted)
          /\ run_pc' = "client"
          /\ since_stop' = IF server_running_ THEN since_stop
                           ELSE [since_stop EXCEPT !.accepts = @ + 1]
       \/ /\ run_pc' = "test"
          /\ UNCHANGED <<conns, since_stop>>
    /\ UNCHANGED <<server_running_, server_fd_, stop_pc>>
    /\ UNCHANGED <<dispatchVars, bridgeVars, storageVars, fleetVars>>

\* handle_client(client_fd, client_ip) for the connection just accepted;
\* stops says that the route handler or interceptor that runs calls
\* app:stop(). When an exception leaves handle_client it leaves run() too.
run_client(bytes, cx, wrote, stops) ==
    LET done == HandleClient(bytes, cx, wrote)
    IN /\ run_pc = "client"
       /\ conns' = [conns EXCEPT ![Len(conns)] = done]
       /\ run_pc' = IF done.escaped THEN "thrown" ELSE "test"
       /\ IF stops /\ done.staged
          THEN ClearRunning /\ server_fd_' = -1
          ELSE UNCHANGED <<server_running_, server_fd_, since_stop>>
       /\ UNCHANGED stop_pc
       /\ UNCHANGED <<dispatchVars, bridgeVars, storageVars, fleetVars>>

\* Server::stop called from another thread or from a signal handler while
\* run() is looping, first statement: running_ = false
stop_clear ==
    /\ stop_pc = "idle"
    /\ run_pc \in {"test", "select", "accept", "client"}
    /\ ClearRunning
    /\ stop_pc' = "close"
    /\ UNCHANGED <<run_pc, server_fd_, conns>>
    /\ UNCHANGED <<dispatchVars, bridgeVars, storageVars, fleetVars>>

\* Server::stop, the rest: close(server_fd_); server_fd_ = -1
stop_close ==
    /\ stop_pc = "close"
    /\ server_fd_' = -1
    /\ stop_pc' = "done"
    /\ UNCHANGED <<run_pc, server_running_, conns, since_stop>>
    /\ UNCHANGED <<dispatchVars, bridgeVars, storageVars, fleetVars>>

\* ------------------------------------------------------------------------
\* Specification of the connection loop: one route, one interceptor and
\* one mount are registered, then run() serves
\* ------------------------------------------------------------------------
LoopRequests == {<<"GET", <<"/", "a">>>>, <<"GET", <<"/", "b">>>>,
                 <<"GET", <<"/", "p", "/", ".", ".">>>>, <<"", <<>>>>}

LoopHandlerKinds == {"plain", "std_exception", "other_throw"}

LoopMwBehaviours == {<<"next">>, <<"send">>, <<"throw">>}

WriteOutcomes == {"all", "failed"}

LoopSetup ==
    /\ run_pc = "idle"
    /\ \/ routes_ = <<>> /\ route("GET", <<"/", "a">>)
       \/ middlewares_ = <<>> /\ use
       \/ static_mounts_ = <<>> /\ serve_static(<<"/", "p">>, <<"d">>)

LoopClient ==
    \E bytes \in Reads, r \in LoopRequests, hk \in LoopHandlerKinds,
       mwb \in [1..Len(middlewares_) -> LoopMwBehaviours],
       wrote \in WriteOutcomes, stops \in BOOLEAN :
        run_client(bytes,
                   [method |-> r[1], path |-> r[2], hk |-> hk, mwb |-> mwb,
                    files |-> EmptyDisk],
                   wrote, stops)

\* the steps of the thread that is inside run()
RunStep == run_test \/ run_select \/ run_accept \/ LoopClient

NextLoop == LoopSetup \/ run_bind \/ RunStep \/ stop_clear \/ stop_close

\* ------------------------------------------------------------------------
\* Specification of routing and middleware (no mounts)
\* ------------------------------------------------------------------------
DispatchRoutes == {<<"GET", <<"/", ":", "x">>>>, <<"GET", <<"/", "a">>>>,
                   <<"POST", <<"/", "a">>>>}

DispatchPaths == {<<"/", "a">>, <<"/", "b">>, <<"/", "a", "/", "b">>}

RegisterRoute == \E r \in DispatchRoutes : route(r[1], r[2])

RegisterMiddleware == use

ServeRequest ==
    /\ ~served
    /\ \E m \in Methods, p \in DispatchPaths, hk \in HandlerKinds,
       mwb \in [1..Len(middlewares_) -> MwBehaviours] :
        handle_client(m, p, hk, mwb, EmptyDisk)

NextDispatch == RegisterRoute \/ RegisterMiddleware \/ ServeRequest
                \/ next_connection


\* ------------------------------------------------------------------------
\* Specification of the static resolver in front of the router
\* ------------------------------------------------------------------------
StaticPrefixes == {<<"/", "p">>, <<"/", "p", "/">>, <<"/", "p", "/", ".", ".">>}

StaticDirs == {<<"d">>, <<"d", "/">>}

StaticPaths == {<<"/", "p">>, <<"/", "p", "/">>, <<"/", "p", "/", "a">>,
                <<"/", "p", "a">>, <<"/", "p", "/", ".", ".">>,
                <<"/", "p", "/", ".", ".", "/", "a">>, <<"/", "q">>}

Disk(opening, failing) ==
    [f \in opening \cup failing |-> IF f \in opening THEN "open" ELSE "denied"]

FsChoices == {EmptyDisk,
              Disk({<<"d", "/", "index.html">>, <<"d", "/", "a">>}, {}),
              Disk({<<"d", "a">>}, {}),
              Disk({<<"d", "/", "index.html">>}, {<<"d", "/", "a">>})}

StaticMwBehaviours == {<<"next">>, <<"send">>, <<"next", "send">>}

RegisterMount == \E p \in StaticPrefixes, d \in StaticDirs : serve_static(p, d)

RegisterCatchAll == routes_ = <<>> /\ route("GET", <<"/", "*">>)

ServeStaticRequest ==
    /\ ~served
    /\ \E m \in Methods, p \in StaticPaths, hk \in {"plain"},
       mwb \in [1..Len(middlewares_) -> StaticMwBehaviours], fs \in FsChoices :
        handle_client(m, p, hk, mwb, fs)

NextStatic == RegisterMount \/ RegisterCatchAll \/ RegisterMiddleware
              \/ ServeStaticRequest \/ next_connection


\* ------------------------------------------------------------------------
\* Specification of the pattern matcher: one route, every short pattern
\* against every short path
\* ------------------------------------------------------------------------
PatternChars == {"/", "a", ":", "*", "."}

PathChars == {"/", "a", "."}

RECURSIVE Strings(_, _)
Strings(chars, n) ==
    IF n = 0 THEN {<<>>}
    ELSE LET shorter == Strings(chars, n - 1)
         IN shorter \cup {Append(w, c) : w \in shorter, c \in chars}

Greet == <<"/", "g", "r", "e", "e", "t", "/", ":", "n", "a", "m", "e">>

GreetWorld == <<"/", "g", "r", "e", "e", "t", "/", "W", "o", "r", "l", "d">>

TwiceA == <<"/", ":", "a", "/", ":", "a">>

MatchPatterns == {<<"/">> \o w : w \in Strings(PatternChars, MaxPattern)}
                 \cup {Greet, TwiceA}

MatchPaths == {<<"/">> \o w : w \in Strings(PathChars, MaxPath)}
              \cup {GreetWorld, <<"/", "a", "/", ".", "a">>}

RegisterPattern == routes_ = <<>> /\ \E p \in MatchPatterns : route("GET", p)

MatchRequest ==
    /\ routes_ # <<>>
    /\ \E p \in MatchPaths : handle_client("GET", p, "plain", <<>>, EmptyDisk)

NextMatch == RegisterPattern \/ MatchRequest \/ next_connection

\* ------------------------------------------------------------------------
\* Specification of mount registration: every short directory string
\* ------------------------------------------------------------------------
MaxDirectory == 3

DirectoryChars == {"d", "/"}

MountDirectories == Strings(DirectoryChars, MaxDirectory)

RegisterDirectory ==
    \E d \in MountDirectories : serve_static(<<"/", "p">>, d)

NextMounts == RegisterDirectory

\* ------------------------------------------------------------------------
\* Properties of the pipeline
\* ------------------------------------------------------------------------
HandlerRuns == {i \in DOMAIN trace : trace[i].kind = "handler"}

Ran(i) == \E n \in DOMAIN trace : trace[n].kind = "mw" /\ trace[n].idx = i

\* the routes that have the request's method and match its path
MatchingRoutes ==
    {k \in 1..Len(routes_) :
        /\ routes_[k].method = req.method
        /\ RegexMatch(compile_pattern(routes_[k].pattern).regex, req.path).ok}

\* a stage after interceptor i: a later interceptor, the static resolver,
\* the router or a route handler
LaterStage(e, i) ==
    \/ e.kind = "mw" /\ e.idx > i
    \/ e.kind \in {"static", "read", "forbidden", "router", "handler", "notfound"}

\* the interceptor writes the response after its continuation has returned
WritesAfterNext(beh) ==
    \E a, b \in DOMAIN beh : a < b /\ beh[a] = "next" /\ beh[b] = "send"

\* C1: every handler that is invoked belongs to the earliest-registered
\* route whose method equals the request method and whose pattern matches
\* the request path; no later-registered route's handler is invoked.
C1_FirstMatchWins ==
    served =>
        \A n \in HandlerRuns :
            /\ MatchingRoutes # {}
            /\ routes_[Min(MatchingRoutes)].handler = trace[n].idx

C1_Witness ==
    /\ served
    /\ HandlerRuns # {}
    /\ Cardinality(MatchingRoutes) >= 2
    /\ routes_[1].pattern = <<"/", ":", "x">>
    /\ routes_[2].pattern = <<"/", "a">>

\* C2: at most one route handler is invoked per request, whatever each
\* interceptor does with its continuation.
C2_AtMostOneHandler == served => Cardinality(HandlerRuns) <= 1

\* C3 as stated: an interceptor that marks the response sent and returns
\* without calling its continuation keeps every later stage from running,
\* and the response written is the one that interceptor produced.
C3_ShortCircuitOriginal ==
    \A i \in 1..Len(middlewares_) :
        (served /\ Ran(i) /\ mwBehaviour[i] = <<"send">>) =>
            /\ \A n \in DOMAIN trace : ~LaterStage(trace[n], i)
            /\ res.sent /\ res.body = [by |-> "mw", idx |-> i, msg |-> ""]

\* C3 amended: an interceptor that marks the response sent and returns
\* without calling its continuation keeps every later interceptor, the
\* static resolver and every route handler from running; the response
\* written is the one it produced unless an earlier interceptor writes the
\* response again after its own continuation has returned.
C3_ShortCircuit ==
    \A i \in 1..Len(middlewares_) :
        (served /\ Ran(i) /\ mwBehaviour[i] = <<"send">>) =>
            /\ \A n \in DOMAIN trace : ~LaterStage(trace[n], i)
            /\ res.sent
            /\ (\A j \in 1..(i - 1) : ~WritesAfterNext(mwBehaviour[j])) =>
                   /\ res.body = [by |-> "mw", idx |-> i, msg |-> ""]
                   /\ res.status = 401

C3_Witness ==
    /\ served
    /\ Len(middlewares_) = 2
    /\ mwBehaviour[1] = <<"send">>
    /\ Ran(1)
    /\ MatchingRoutes # {}
    /\ res.body = [by |-> "mw", idx |-> 1, msg |-> ""]

\* C4: no stage (interceptor, static resolver, router, route handler)
\* starts once the response is marked sent; an interceptor that marks the
\* response sent and then calls its continuation starts no later stage.
C4_DoubleGuard ==
    served =>
        /\ \A n \in DOMAIN trace :
               trace[n].kind \in {"mw", "static", "router", "handler"}
                   => ~trace[n].sentBefore
        /\ \A i \in 1..Len(middlewares_) :
               (Ran(i) /\ mwBehaviour[i] = <<"send", "next">>) =>
                   \A n \in DOMAIN trace : ~LaterStage(trace[n], i)

C4_Witness ==
    /\ served
    /\ Len(middlewares_) = 2
    /\ mwBehaviour[1] = <<"send", "next">>
    /\ Ran(1)
    /\ MatchingRoutes # {}

\* the continuation of interceptor i is invoked at position m of the trace
NextOf(m, i) == m \in DOMAIN trace /\ trace[m].kind = "next" /\ trace[m].idx = i

\* the static resolver or the router is entered at position n of the trace
FinalStage(n) == trace[n].kind \in {"static", "router"}

\* the interceptor returns without invoking its continuation
NeverNext(beh) == \A a \in DOMAIN beh : beh[a] # "next"

\* C29: interceptors run in registration order; interceptor k+1 starts only
\* from within the continuation that interceptor k has invoked, and the
\* static/router stage is entered only from within the continuation of the
\* last interceptor, every interceptor having invoked its own before; an
\* interceptor that returns without invoking its continuation ends the
\* pipeline (no later interceptor, no static resolver, no router, no
\* handler), whether or not it marked the response sent.
C29_MiddlewareOrdering ==
    served =>
        /\ \A n \in DOMAIN trace :
               trace[n].kind = "mw" =>
                   /\ \A j \in 1..(trace[n].idx - 1) :
                          \E m \in 1..(n - 1) :
                              trace[m].kind = "mw" /\ trace[m].idx = j
                   /\ trace[n].idx > 1 => NextOf(n - 1, trace[n].idx - 1)
                   /\ trace[n].idx = 1 => n = 1
        /\ \A n \in DOMAIN trace :
               FinalStage(n) =>
                   /\ \A i \in 1..Len(middlewares_) :
                          \E m \in 1..(n - 1) : NextOf(m, i)
                   /\ (Len(middlewares_) > 0 /\ trace[n].kind = "static")
                          => NextOf(n - 1, Len(middlewares_))
                   /\ (Len(middlewares_) > 0 /\ req.method # "GET")
                          => NextOf(n - 1, Len(middlewares_))
        /\ \A i \in 1..Len(middlewares_) :
               (Ran(i) /\ NeverNext(mwBehaviour[i])) =>
                   \A n \in DOMAIN trace : ~LaterStage(trace[n], i)

\* two interceptors before a matching route: the first invoked its
\* continuation, the second returned without invoking it and without marking
\* the response sent, and the request ended there
C29_Witness ==
    /\ served
    /\ Len(middlewares_) = 2
    /\ mwBehaviour[1] = <<"next">> /\ mwBehaviour[2] = <<>>
    /\ Ran(2) /\ NextOf(2, 1)
    /\ MatchingRoutes # {}
    /\ ~res.sent /\ HandlerRuns = {}

\* C5: a fault raised by the matched route handler never leaves
\* dispatch_request; the response has status 500 and its body carries the
\* fault's message.
C5_HandlerFaultBoundary ==
    (/\ served
     /\ HandlerRuns # {}
     /\ handlerKind \in {"std_exception", "other_throw", "lua_error"}
     /\ \A i \in 1..Len(middlewares_) : mwBehaviour[i] = <<"next">>) =>
        /\ res.exc = "none"
        /\ res.status = 500
        /\ res.body.by = "fault" /\ res.body.msg = "what"

\* the path continues with ".." after the prefix of mount m
DotsUnder(m) ==
    /\ StartsWith(req.path, static_mounts_[m].url_prefix)
    /\ ContainsDotDot(Suffix(req.path, Len(static_mounts_[m].url_prefix)))

\* mount m has a file for the path
Serves(m) ==
    /\ StartsWith(req.path, static_mounts_[m].url_prefix)
    /\ ~ContainsDotDot(RelativePath(static_mounts_[m], req.path))
    /\ LET file_path == static_mounts_[m].directory
                             \o RelativePath(static_mounts_[m], req.path)
       IN is_regular_file(files, file_path) /\ ifstream(files, file_path)

Kinds(K) == {n \in DOMAIN trace : trace[n].kind \in K}

C7_StaticConfinement ==
    \A n \in Kinds({"read"}) :
        LET dir == static_mounts_[trace[n].idx].directory
        IN /\ StartsWith(trace[n].file, dir)
           /\ Len(trace[n].file) > Len(dir) + 1
           /\ trace[n].file[Len(dir) + 1] = "/"
           /\ ~ContainsDotDot(trace[n].file)

\* the file mount m stands for: its directory followed by what the path has
\* after the prefix, index.html for an empty or "/" remainder
Remainder(m) == Suffix(req.path, Len(static_mounts_[m].url_prefix))

ResolvedFile(m) ==
    static_mounts_[m].directory \o
        (IF Remainder(m) \in {<<>>, <<"/">>}
         THEN <<"/", "index.html">> ELSE Remainder(m))

\* the mounts whose prefix matches and whose file exists as a regular file
Existing ==
    {m \in 1..Len(static_mounts_) :
        /\ StartsWith(req.path, static_mounts_[m].url_prefix)
        /\ ResolvedFile(m) \in DOMAIN files}

\* those of them whose file can be opened for reading
Readable == {m \in Existing : files[ResolvedFile(m)] = "open"}

\* the final handler was entered with the response not yet sent
StageEntered ==
    \/ Len(middlewares_) = 0
    \/ \E m \in DOMAIN trace :
           NextOf(m, Len(middlewares_)) /\ ~trace[m].sentBefore

\* the outcome of static resolution when the mounts in Hits have a file
ResolutionOrder(Hits) ==
    /\ (served /\ req.method = "GET" /\ ~ContainsDotDot(req.path)
           /\ StageEntered) =>
           IF Hits # {}
           THEN /\ \E n \in Kinds({"read"}) :
                       /\ trace[n].idx = Min(Hits)
                       /\ trace[n].file = ResolvedFile(Min(Hits))
                /\ Cardinality(Kinds({"read"})) = 1
                /\ res.sent
                /\ Kinds({"router", "handler", "notfound", "forbidden"}) = {}
                /\ (\A j \in 1..Len(middlewares_) :
                        ~WritesAfterNext(mwBehaviour[j]))
                       => res.body = [by |-> "file", idx |-> Min(Hits), msg |-> ""]
           ELSE /\ Kinds({"read", "forbidden"}) = {}
                /\ Kinds({"router"}) # {}
    /\ (served /\ req.method # "GET" /\ StageEntered) =>
           /\ Kinds({"static", "read", "forbidden"}) = {}
           /\ Kinds({"router"}) # {}

C20_NoRouteOriginal ==
    (served /\ Kinds({"router"}) # {} /\ MatchingRoutes = {}) =>
        /\ res.status = 404
        /\ HandlerRuns = {}

\* C20 amended: when the router stage runs and no registered route has
\* both the request's method and a pattern matching its path (also when the
\* path matches routes of another method only), the router writes status
\* 404 and invokes no handler; 404 is the status of the response unless an
\* interceptor writes the response again after its continuation has
\* returned.
C20_NoRoute ==
    (served /\ Kinds({"router"}) # {} /\ MatchingRoutes = {}) =>
        /\ HandlerRuns = {}
        /\ Kinds({"notfound"}) # {}
        /\ \A n \in Kinds({"router"}) :
               n < Len(trace) /\ trace[n + 1].kind = "notfound"
        /\ (\A j \in 1..Len(middlewares_) : ~WritesAfterNext(mwBehaviour[j]))
               => /\ res.status = 404
                  /\ res.body = [by |-> "notfound", idx |-> 0, msg |-> ""]
                  /\ ~res.sent

\* a GET request for a path that only a POST route matches was answered 404
\* by the router behind an interceptor
C20_Witness ==
    /\ served
    /\ req.method = "GET" /\ req.path = <<"/", "a">>
    /\ Len(routes_) = 1
    /\ routes_[1].method = "POST" /\ routes_[1].pattern = <<"/", "a">>
    /\ Len(middlewares_) = 1 /\ mwBehaviour[1] = <<"next">>
    /\ Kinds({"router"}) # {}
    /\ HandlerRuns = {}
    /\ res.status = 404

\* The reference matcher. A pattern is read as a row of elements: ':' and
\* the characters up to the next '/' declare a name, '*' stands for any
\* text, every other character for itself.
RECURSIVE RefElements(_)
RefElements(p) ==
    IF p = <<>> THEN <<>>
    ELSE IF Head(p) = ":" THEN
        LET stops == {j \in 2..Len(p) : p[j] = "/"}
            e == IF stops = {} THEN Len(p) ELSE Min(stops) - 1
        IN <<[kind |-> "name", text |-> SubSeq(p, 2, e)]>>
           \o RefElements(Suffix(p, e))
    ELSE IF Head(p) = "*" THEN
        <<[kind |-> "any", text |-> <<>>]>> \o RefElements(Tail(p))
    ELSE <<[kind |-> "char", text |-> <<Head(p)>>]>> \o RefElements(Tail(p))

\* Every way of cutting the whole of s into one piece per element: a
\* character is itself, a name is a non-empty run without '/', '*' is any
\* text. Each way is given as the pieces of the names, in declaration order.
RECURSIVE RefBindings(_, _)
RefBindings(els, s) ==
    IF els = <<>> THEN (IF s = <<>> THEN {<<>>} ELSE {})
    ELSE
        LET e == Head(els)
        IN IF e.kind = "char" THEN
               IF s # <<>> /\ <<Head(s)>> = e.text
               THEN RefBindings(Tail(els), Tail(s))
               ELSE {}
           ELSE IF e.kind = "name" THEN
               UNION {{<<SubSeq(s, 1, k)>> \o b :
                          b \in RefBindings(Tail(els), Suffix(s, k))} :
                      k \in {n \in 1..Len(s) : \A j \in 1..n : s[j] # "/"}}
           ELSE UNION {RefBindings(Tail(els), Suffix(s, k)) : k \in 0..Len(s)}

RefNames(els) ==
    LET at == {i \in DOMAIN els : els[i].kind = "name"}
        nth[n \in 0..Cardinality(at)] ==
            IF n = 0 THEN 0 ELSE Min({i \in at : i > nth[n - 1]})
    IN [n \in 1..Cardinality(at) |-> els[nth[n]].text]

\* the pattern of the only route and the ways the request path fits it
ThePattern == routes_[1].pattern

Fits == RefBindings(RefElements(ThePattern), req.path)

Plain(p) == \A i \in DOMAIN p : p[i] \notin {":", "*"}

\* the map that binding the names to the pieces, in declaration order,
\* leaves behind
Bound(names, pieces) ==
    [nm \in {names[i] : i \in DOMAIN names} |->
        pieces[Max({i \in DOMAIN names : names[i] = nm})]]

\* C21: the route's handler runs exactly when the whole path fits the
\* pattern as the reference matcher reads it (a pattern without ':' and
\* '*' fits the identical path only, a ':name' takes one non-empty run of
\* non-'/' characters), and then the request's parameter map is the one
\* obtained by binding the declared names, in declaration order, to the
\* texts at their positions.
C21_MatcherAgrees ==
    (served /\ Len(routes_) = 1) =>
        /\ (HandlerRuns # {}) <=> (Fits # {})
        /\ Plain(ThePattern) => ((HandlerRuns # {}) <=> (req.path = ThePattern))
        /\ HandlerRuns # {} =>
              \E pieces \in Fits :
                  req.params = Bound(RefNames(RefElements(ThePattern)), pieces)

C21_Witness ==
    /\ served
    /\ Len(routes_) = 1
    /\ ThePattern = Greet
    /\ req.path = GreetWorld
    /\ HandlerRuns # {}
    /\ req.params = [nm \in {<<"n", "a", "m", "e">>} |-> <<"W", "o", "r", "l", "d">>]

\* C31: after any sequence of mount registrations with any directory
\* strings, no directory in the mount table ends with '/'.
C31_MountInvariant ==
    \A m \in 1..Len(static_mounts_) :
        LET directory == static_mounts_[m].directory
        IN directory = <<>> \/ directory[Len(directory)] # "/"

\* ------------------------------------------------------------------------
\* Properties of the connection loop
\* ------------------------------------------------------------------------
\* handle_client is over for the i-th accepted connection
Handled(i) == i < Len(conns) \/ run_pc # "client"

\* C23: an accepted connection whose read timed out or returned no bytes
\* is closed without a request being parsed, without any interceptor,
\* static resolution or handler running, and without a response being
\* built or written.
C23_EmptyRead ==
    \A i \in DOMAIN conns :
        (Handled(i) /\ conns[i].bytes \in {"timeout", "none"}) =>
            /\ conns[i].closed
            /\ conns[i].parsed = 0
            /\ conns[i].ran = 0
            /\ ~conns[i].staged
            /\ conns[i].built = 0
            /\ conns[i].written = 0

C23_Witness ==
    /\ routes_ # <<>> /\ middlewares_ # <<>> /\ static_mounts_ # <<>>
    /\ Len(conns) = 2
    /\ conns[1].bytes = "timeout" /\ conns[1].closed
    /\ conns[2].bytes = "none" /\ conns[2].closed
    /\ run_pc = "test"

\* the read of the i-th connection returned at least one byte
ReadData(i) == conns[i].bytes \in {"nul", "data"}

\* C24: for every accepted connection whose read returned data the
\* pipeline runs once, the response is built once, one response is
\* written and the connection is then closed; every accepted connection
\* is closed before the next one is accepted, so at most one is open.
C24_ConnectionLifecycle ==
    /\ \A i \in DOMAIN conns :
          (Handled(i) /\ ReadData(i)) =>
              /\ conns[i].ran = 1
              /\ conns[i].built = 1
              /\ conns[i].written = 1
              /\ conns[i].closed
    /\ \A i \in DOMAIN conns : i < Len(conns) => conns[i].closed
    /\ Cardinality({i \in DOMAIN conns : ~conns[i].closed}) <= 1

\* run() is inside its loop
Looping == run_pc \in {"test", "select", "accept", "client"}

\* stop() has cleared running_ while run() was looping
StopRequested == ~server_running_ /\ run_pc \notin {"idle", "returned_false"}

\* C25: if stop() is called while run() is looping, run() finishes at most
\* the connection it is handling, polls at most once more, sees the
\* cleared flag at its next loop test, accepts no connection after that
\* and returns.
C25_CooperativeShutdown ==
    /\ [](StopRequested => since_stop.polls <= 1 /\ since_stop.accepts <= 1)
    /\ [][(run_pc = "test" /\ ~server_running_ /\ run_pc' # run_pc)
              => run_pc' = "returned_true"]_vars
    /\ (StopRequested /\ Looping) ~> (run_pc = "returned_true")

\* run() is over after it had entered its loop
LoopEnded == run_pc \in {"returned_true", "thrown", "aborted"}

\* C26: run() ends only because the socket setup failed before serving or
\* because stop() was requested; no poll or accept error, no request and
\* no fault while a request is handled makes the loop exit, and after
\* every connection the loop goes on to its next turn.
C26_LoopSurvival ==
    /\ [](LoopEnded => ~server_running_)
    /\ [][run_pc = "client" => run_pc' \in {"client", "test"}]_vars

\* C39: when stop() runs asynchronously to run(), run() never registers,
\* polls or accepts on the listening descriptor after stop() has closed and
\* invalidated it, in any interleaving of the two steps of stop() with the
\* steps of the loop.
C39_StopRace ==
    [][(run_pc \in {"select", "accept"} /\ run_pc' # run_pc)
          => server_fd_ >= 0]_vars

\* C40: whenever run() has returned (bind failure, stop request or any
\* other exit of the accept loop), is_running() is false.
C40_ReturnedNotRunning ==
    run_pc \in {"returned_true", "returned_false"} => ~server_running_

\* ------------------------------------------------------------------------
\* Database bridge supervisor
\* ------------------------------------------------------------------------
\* DatabaseBridge::server_id_ of the instance, and the id of some other server
ServerId == "A"

OtherId == "B"

\* loopback ports the OS hands out
Ports == {1, 2}

\* the threads that call start() on the one Bridge Instance
Callers == {"T1", "T2"}

\* number of health polls after the launch
HealthPolls == 50

\* owners of a port other than a forked companion
Free == 0

Foreign == -1

\* what http_get(port_, "/health") can return
EmptyResponse == [kind |-> "empty", ok |-> FALSE, sid |-> ""]

\* server.js /health: ok: true, serverId: SERVER_ID (argv[3] = server_id_)
CompanionHealth == [kind |-> "json", ok |-> TRUE, sid |-> ServerId]

ForeignResponses == {[kind |-> "json", ok |-> TRUE, sid |-> OtherId],
                     [kind |-> "json", ok |-> FALSE, sid |-> ServerId],
                     [kind |-> "garbage", ok |-> FALSE, sid |-> ""]}

\* the answers a /health request to port p can get right now; the empty
\* answer (refused connection, timeout) is always possible
HealthResponses(p) ==
    {EmptyResponse}
    \cup (IF p \in Ports /\ bound[p] = Foreign THEN ForeignResponses ELSE {})
    \cup (IF p \in Ports /\ bound[p] \in 1..Len(procs) THEN {CompanionHealth} ELSE {})

\* a health test that accepts any server id
HealthOkAnyId(r) == r.kind = "json" /\ r.ok

\* DatabaseBridge::check_health on the response r
HealthOk(r) == r.kind = "json" /\ r.ok /\ r.sid = ServerId

Alive(p) == procs[p].state # "dead"

\* the ports after process p is gone
Unbound(p) == [q \in Ports |-> IF bound[q] = p THEN Free ELSE bound[q]]

\* the module-level state of every forked process (server.js: databases,
\* absolutePathsInUse, dbIdCounter)
ProcessMemory ==
    [databases |-> databases, absolutePathsInUse |-> absolutePathsInUse,
     dbIdCounter |-> dbIdCounter]

\* the memory mem once process p is gone: nothing of p is left
Forgotten(mem, p) ==
    [databases |-> [mem.databases EXCEPT ![p] = {}],
     absolutePathsInUse |-> [mem.absolutePathsInUse EXCEPT ![p] = {}],
     dbIdCounter |-> [mem.dbIdCounter EXCEPT ![p] = 0]]

\* the processes keep the memory mem
Remember(mem) ==
    /\ databases' = mem.databases
    /\ absolutePathsInUse' = mem.absolutePathsInUse
    /\ dbIdCounter' = mem.dbIdCounter

\* process p ends: it has no port any more, the port is free again and its
\* memory, which was mem, is lost
exit(p, mem) ==
    /\ procs' = [procs EXCEPT ![p] = [port |-> 0, state |-> "dead"]]
    /\ bound' = Unbound(p)
    /\ Remember(Forgotten(mem, p))

BridgeInit ==
    /\ port_ = 0
    /\ bridge_pid_ = 0
    /\ running_ = FALSE
    /\ procs = <<>>
    /\ bound = [p \in Ports |-> Free]
    /\ pc = [c \in Callers |-> "idle"]
    /\ poll_i = [c \in Callers |-> 0]
    /\ pid = [c \in Callers |-> 0]
    /\ ret = [c \in Callers |-> "none"]
    /\ health = EmptyResponse
    /\ report = "none"

\* start(), after the first test failed: the search for database/server.js
ScriptSearch(c) ==
    \E found \in BOOLEAN :
        IF found
        THEN /\ ret' = [ret EXCEPT ![c] = "none"]
             /\ pc' = [pc EXCEPT ![c] = "launch"]
             /\ report' = "none"
        ELSE /\ ret' = [ret EXCEPT ![c] = "fail"]
             /\ pc' = pc
             /\ report' = "Database bridge script not found"

\* a start() that launches without looking at running_ and /health
StartAlwaysLaunches(c) ==
    /\ pc[c] = "idle"
    /\ health' = health
    /\ ScriptSearch(c)
    /\ UNCHANGED <<port_, bridge_pid_, running_, procs, bound, poll_i, pid>>

\* start(), entry: if (running_ && check_health()) return true; then the
\* script search
start(c) ==
    /\ pc[c] = "idle"
    /\ IF running_ /\ port_ # 0
       THEN \E r \in HealthResponses(port_) :
               /\ health' = r
               /\ IF HealthOk(r)
                  THEN /\ ret' = [ret EXCEPT ![c] = "ok"]
                       /\ pc' = pc
                       /\ report' = "none"
                  ELSE ScriptSearch(c)
       ELSE /\ health' = health
            /\ ScriptSearch(c)
    /\ UNCHANGED <<port_, bridge_pid_, running_, procs, bound, poll_i, pid>>

\* start() called by the program itself
StartEnter(c) ==
    /\ start(c)
    /\ UNCHANGED <<pipelineVars, storageVars, fleetVars>>

\* start(): port_ = find_free_port(); pid = fork(); bridge_pid_ = pid
StartLaunch(c) ==
    /\ pc[c] = "launch"
    /\ \E p \in {q \in Ports : bound[q] = Free} :
          /\ port_' = p
          /\ \/ /\ Len(procs) < MaxLaunches
                /\ procs' = Append(procs, [port |-> p, state |-> "starting"])
                /\ bridge_pid_' = Len(procs) + 1
                /\ pid' = [pid EXCEPT ![c] = Len(procs) + 1]
                /\ poll_i' = [poll_i EXCEPT ![c] = 0]
                /\ pc' = [pc EXCEPT ![c] = "poll"]
                /\ ret' = ret
                /\ report' = report
             \/ /\ pc' = [pc EXCEPT ![c] = "idle"]
                /\ ret' = [ret EXCEPT ![c] = "fail"]
                /\ report' = "Failed to fork for database bridge"
                /\ UNCHANGED <<procs, bridge_pid_, pid, poll_i>>
    /\ UNCHANGED <<running_, bound, health>>
    /\ UNCHANGED <<pipelineVars, storageVars, fleetVars>>

\* a poll loop that takes one turn too many, for (i = 0; i <= polls; ++i)
StartPollOneMore(c, polls) ==
    /\ pc[c] = "poll"
    /\ poll_i[c] <= polls
    /\ \E r \in HealthResponses(port_) :
          /\ health' = r
          /\ IF HealthOk(r)
             THEN /\ running_' = TRUE
                  /\ ret' = [ret EXCEPT ![c] = "ok"]
                  /\ pc' = [pc EXCEPT ![c] = "idle"]
                  /\ poll_i' = [poll_i EXCEPT ![c] = 0]
                  /\ pid' = [pid EXCEPT ![c] = 0]
             ELSE /\ running_' = running_
                  /\ ret' = ret
                  /\ pid' = pid
                  /\ poll_i' = [poll_i EXCEPT ![c] = @ + 1]
                  /\ pc' = [pc EXCEPT ![c] =
                               IF poll_i[c] + 1 <= polls THEN "poll" ELSE "fail"]
    /\ UNCHANGED <<port_, bridge_pid_, procs, bound, report>>
    /\ UNCHANGED <<pipelineVars, storageVars, fleetVars>>

\* start(): one turn of the poll loop for (i = 0; i < polls; ++i),
\* usleep(100ms) then check_health()
StartPoll(c, polls) ==
    /\ pc[c] = "poll"
    /\ poll_i[c] < polls
    /\ \E r \in HealthResponses(port_) :
          /\ health' = r
          /\ IF HealthOk(r)
             THEN /\ running_' = TRUE
                  /\ ret' = [ret EXCEPT ![c] = "ok"]
                  /\ pc' = [pc EXCEPT ![c] = "idle"]
                  /\ poll_i' = [poll_i EXCEPT ![c] = 0]
                  /\ pid' = [pid EXCEPT ![c] = 0]
                  /\ report' = report
             ELSE /\ running_' = running_
                  /\ ret' = ret
                  /\ report' = report
                  /\ pid' = pid
                  /\ poll_i' = [poll_i EXCEPT ![c] = @ + 1]
                  /\ pc' = [pc EXCEPT ![c] =
                               IF poll_i[c] + 1 < polls THEN "poll" ELSE "fail"]
    /\ UNCHANGED <<port_, bridge_pid_, procs, bound>>
    /\ UNCHANGED <<pipelineVars, storageVars, fleetVars>>

\* a failure path that reports the timeout and sends no signal
StartFailNoSignal(c) ==
    /\ pc[c] = "fail"
    /\ report' = IF Alive(pid[c])
                 THEN "Database bridge timed out (health check failed)"
                 ELSE "Database bridge process exited early"
    /\ ret' = [ret EXCEPT ![c] = "fail"]
    /\ pc' = [pc EXCEPT ![c] = "idle"]
    /\ poll_i' = [poll_i EXCEPT ![c] = 0]
    /\ pid' = [pid EXCEPT ![c] = 0]
    /\ UNCHANGED <<port_, bridge_pid_, running_, health, procs, bound>>
    /\ UNCHANGED <<storageVars, pipelineVars, fleetVars>>

\* start(), all polls failed: waitpid(pid, &status, WNOHANG) finds the
\* process gone and its exit status is reported; else the timeout is
\* reported and the process gets kill(pid, SIGTERM), on which it exits
StartFail(c) ==
    /\ pc[c] = "fail"
    /\ IF Alive(pid[c])
       THEN /\ report' = "Database bridge timed out (health check failed)"
            /\ exit(pid[c], ProcessMemory)
       ELSE /\ report' = "Database bridge process exited early"
            /\ UNCHANGED <<procs, bound, companionVars>>
    /\ ret' = [ret EXCEPT ![c] = "fail"]
    /\ pc' = [pc EXCEPT ![c] = "idle"]
    /\ poll_i' = [poll_i EXCEPT ![c] = 0]
    /\ pid' = [pid EXCEPT ![c] = 0]
    /\ UNCHANGED <<port_, bridge_pid_, running_, health>>
    /\ UNCHANGED <<handles, call, response, rpcs, result, db_result>>
    /\ UNCHANGED <<pipelineVars, fleetVars>>

\* server.js: server.listen(PORT, HOST); the process dies when the port is taken
CompanionListen(p) ==
    /\ procs[p].state = "starting"
    /\ IF bound[procs[p].port] = Free
       THEN /\ procs' = [procs EXCEPT ![p].state = "listening"]
            /\ bound' = [bound EXCEPT ![procs[p].port] = p]
       ELSE /\ procs' = [procs EXCEPT ![p] = [port |-> 0, state |-> "dead"]]
            /\ bound' = bound
    /\ UNCHANGED <<port_, bridge_pid_, running_, pc, poll_i, pid, ret, health,
                   report>>
    /\ UNCHANGED <<pipelineVars, storageVars, fleetVars>>

\* the forked process ends by itself (execlp failed, node crashed)
CompanionExit(p) ==
    /\ Alive(p)
    /\ exit(p, ProcessMemory)
    /\ UNCHANGED <<port_, bridge_pid_, running_, pc, poll_i, pid, ret, health,
                   report>>
    /\ UNCHANGED <<handles, call, response, rpcs, result, db_result>>
    /\ UNCHANGED <<pipelineVars, fleetVars>>

\* another program takes a free loopback port, or gives it back
ForeignBind(p) ==
    /\ bound[p] = Free
    /\ bound' = [bound EXCEPT ![p] = Foreign]
    /\ UNCHANGED <<port_, bridge_pid_, running_, procs, pc, poll_i, pid, ret,
                   health, report>>
    /\ UNCHANGED <<pipelineVars, storageVars, fleetVars>>

ForeignExit(p) ==
    /\ bound[p] = Foreign
    /\ bound' = [bound EXCEPT ![p] = Free]
    /\ UNCHANGED <<port_, bridge_pid_, running_, procs, pc, poll_i, pid, ret,
                   health, report>>
    /\ UNCHANGED <<pipelineVars, storageVars, fleetVars>>

\* the thread that owns the bridge in the sequential server
MainCaller == "T1"

NextBridge ==
    \/ StartEnter(MainCaller)
    \/ StartLaunch(MainCaller)
    \/ StartPoll(MainCaller, HealthPolls)
    \/ StartFail(MainCaller)
    \/ \E p \in 1..Len(procs) : CompanionListen(p)
    \/ \E p \in 1..Len(procs) : CompanionExit(p)
    \/ \E p \in Ports : ForeignBind(p)
    \/ \E p \in Ports : ForeignExit(p)

NextBridgeRace ==
    \/ \E c \in Callers : StartEnter(c)
    \/ \E c \in Callers : StartLaunch(c)
    \/ \E c \in Callers : StartPoll(c, RacePolls)
    \/ \E c \in Callers : StartFail(c)
    \/ \E p \in 1..Len(procs) : CompanionListen(p)
    \/ \E p \in 1..Len(procs) : CompanionExit(p)

\* ------------------------------------------------------------------------
\* Properties of the bridge supervisor
\* ------------------------------------------------------------------------
\* a /health answer with ok = true from a server with another id
Mismatch(r) == r.kind = "json" /\ r.ok /\ r.sid # ServerId

\* C8: start() sets the running flag, or returns success, only in a step
\* whose /health response has ok = true and the instance's own server id; a
\* response with another serverId leaves the flag alone even with ok = true.
C8_HealthIdentity ==
    [][/\ (\/ running_' /\ ~running_
           \/ \E c \in Callers :
                 ret'[c] = "ok" /\ (ret[c] # "ok" \/ health' # health))
          => (health'.kind = "json" /\ health'.ok /\ health'.sid = ServerId)
       /\ (health' # health /\ Mismatch(health'))
          => (running_' = running_ /\ \A c \in Callers : ret'[c] # "ok")
      ]_vars

C8_Witness ==
    /\ pc[MainCaller] = "poll"
    /\ poll_i[MainCaller] >= 1
    /\ Mismatch(health)
    /\ bound[port_] = Foreign
    /\ ~running_

\* C9: two start() calls that overlap between launch and "running" share
\* one companion process; there are never two live processes of the
\* instance on two different ports, each polled by its own start() call.
C9_NoDoubleSpawn ==
    \A c1, c2 \in Callers :
        (c1 # c2 /\ pc[c1] = "poll" /\ pc[c2] = "poll") =>
            ~(/\ pid[c1] # pid[c2]
              /\ Alive(pid[c1]) /\ Alive(pid[c2])
              /\ procs[pid[c1]].port # procs[pid[c2]].port)

\* a step that is one turn of the poll loop of the caller's start()
PollTurn ==
    /\ pc[MainCaller] = "poll"
    /\ pc'[MainCaller] # "poll" \/ poll_i'[MainCaller] # poll_i[MainCaller]

TimedOut == "Database bridge timed out (health check failed)"

ExitedEarly == "Database bridge process exited early"

\* the caller's start() has returned failure from the path after the loop
BudgetFailure ==
    /\ pc[MainCaller] = "idle"
    /\ ret[MainCaller] = "fail"
    /\ report \in {TimedOut, ExitedEarly}

\* C28: when start() fails because the poll budget is exhausted, the
\* process it launched is not left running: it had exited already and its
\* exit is what is reported, or it is sent the terminate signal and a
\* timeout is reported.
C28_FailureClassification ==
    /\ [](BudgetFailure => (bridge_pid_ > 0 /\ ~Alive(bridge_pid_)))
    /\ [][(pc[MainCaller] = "fail" /\ pc'[MainCaller] = "idle") =>
            IF Alive(pid[MainCaller])
            THEN /\ report' = TimedOut
                 /\ procs'[pid[MainCaller]].state = "dead"
            ELSE /\ report' = ExitedEarly
                 /\ procs' = procs
         ]_vars

\* a launched process that never answered was terminated after the loop
C28_Witness ==
    /\ BudgetFailure
    /\ report = TimedOut
    /\ bridge_pid_ > 0 /\ ~Alive(bridge_pid_)

\* C32: whenever start() has returned failure, is_running() is false
\* afterwards, also when the instance was marked running before the call,
\* its health check failed and the relaunch then failed.
C32_FailedStartNotRunning ==
    (pc[MainCaller] = "idle" /\ ret[MainCaller] = "fail") => ~running_

\* C33: whenever start() launches a new process, every process the
\* instance launched earlier has exited or has been signalled to terminate;
\* a relaunch after a failed health check leaves no earlier process running.
C33_OneLiveCompanion ==
    [][Len(procs') > Len(procs) => \A p \in 1..Len(procs) : ~Alive(p)]_vars

\* ------------------------------------------------------------------------
\* Companion storage process (database/server.js)
\* ------------------------------------------------------------------------
\* A database path is a sequence of segments; an absolute path starts with
\* the segment "/", and <<>> is the empty string.
isAbsolute(p) == Len(p) > 0 /\ p[1] = "/"

\* path.join(dir, p) for an absolute dir: "." is dropped, ".." removes the
\* segment before it and stops at the root
RECURSIVE join(_, _)
join(dir, p) ==
    IF p = <<>> THEN dir
    ELSE IF Head(p) = "." THEN join(dir, Tail(p))
    ELSE IF Head(p) = ".."
         THEN join(IF Len(dir) > 1 THEN SubSeq(dir, 1, Len(dir) - 1) ELSE dir,
                   Tail(p))
    ELSE join(Append(dir, Head(p)), Tail(p))

\* path.join(process.cwd(), '__DBWEB__', `Dbserver_${SERVER_ID}`)
SERVER_DB_DIR(sid) ==
    <<"/", "cwd", "__DBWEB__",
      IF sid = ServerId THEN "Dbserver_A" ELSE "Dbserver_B">>

resolveDbPath(sid, dbPath) ==
    LET d == IF dbPath = <<>> THEN <<"default.db">> ELSE dbPath IN
    IF isAbsolute(d)
    THEN [path |-> d, isAbsolute |-> TRUE]
    ELSE [path |-> join(SERVER_DB_DIR(sid), d), isAbsolute |-> FALSE]

\* sendJson(res, data, status); id 0 stands for "no id", db_<n> for n
Answer(status, ok, id, path, reused, error) ==
    [kind |-> "json", status |-> status, ok |-> ok, id |-> id, path |-> path,
     reused |-> reused, error |-> error, rows |-> <<>>]

\* the body http_post returns when nothing answers, and what a program
\* that is not a companion sends
EmptyBody ==
    [kind |-> "empty", status |-> 0, ok |-> FALSE, id |-> 0, path |-> <<>>,
     reused |-> FALSE, error |-> "", rows |-> <<>>]

GarbageBody == [EmptyBody EXCEPT !.kind = "garbage"]

\* the module-level state of the forked process p
Companion(p) ==
    [databases |-> databases[p],
     absolutePathsInUse |-> absolutePathsInUse[p],
     dbIdCounter |-> dbIdCounter[p]]

\* an id generator that hands out the smallest id no open database has
GenerateSmallestFree(st) ==
    Min({i \in 1..(st.dbIdCounter + 1) : \A e \in st.databases : e.id # i})

\* generateDbId: `db_${++dbIdCounter}`
generateDbId(st) == st.dbIdCounter + 1

\* POST /open in a process started with SERVER_ID = sid
OpenEndpointOf(sid, st, body) ==
    LET resolved == resolveDbPath(sid, body.path)
        dbPath == resolved.path
        same == {e \in st.databases : e.path = dbPath}
    IN  IF resolved.isAbsolute /\ dbPath \in st.absolutePathsInUse
        THEN [st |-> st,
              resp |-> Answer(409, FALSE, 0, <<>>, FALSE, "Database already in use")]
        ELSE IF same # {}
        THEN LET first == CHOOSE e \in same : \A f \in same : e.id <= f.id IN
             [st |-> st, resp |-> Answer(200, TRUE, first.id, dbPath, TRUE, "")]
        ELSE LET id == generateDbId(st) IN
             [st |-> [databases |-> st.databases \cup
                          {[id |-> id, path |-> dbPath,
                            isAbsolute |-> resolved.isAbsolute]},
                      absolutePathsInUse |->
                          IF resolved.isAbsolute
                          THEN st.absolutePathsInUse \cup {dbPath}
                          ELSE st.absolutePathsInUse,
                      dbIdCounter |-> id],
              resp |-> Answer(200, TRUE, id, dbPath, FALSE, "")]

\* POST /open in a process of the bridge with id ServerId
OpenEndpoint(st, body) == OpenEndpointOf(ServerId, st, body)

\* a /close that leaves the in-use set as it is
CloseKeepsInUse(st, body) ==
    [st |-> [st EXCEPT !.databases = @ \ {e \in @ : e.id = body.id}],
     resp |-> Answer(200, TRUE, 0, <<>>, FALSE, "")]

\* POST /close
CloseEndpoint(st, body) ==
    LET info == {e \in st.databases : e.id = body.id} IN
    [st |-> [databases |-> st.databases \ info,
             absolutePathsInUse |->
                 st.absolutePathsInUse \
                     {e.path : e \in {f \in info : f.isAbsolute}},
             dbIdCounter |-> st.dbIdCounter],
     resp |-> Answer(200, TRUE, 0, <<>>, FALSE, "")]

\* POST /shutdown
ShutdownEndpoint(st, body) ==
    [st |-> [databases |-> {}, absolutePathsInUse |-> {},
             dbIdCounter |-> st.dbIdCounter],
     resp |-> Answer(200, TRUE, 0, <<>>, FALSE, "")]

\* The values better-sqlite3 returns for a column: null, a number (a
\* double, for INTEGER and REAL columns alike), a string, or a Buffer for
\* a BLOB.
JsNull == [js |-> "null", v |-> "null"]

JsNumber(v) == [js |-> "number", v |-> v]

JsString(v) == [js |-> "string", v |-> v]

JsBuffer == [js |-> "Buffer", v |-> "00"]

\* stmt.all(): the rows of the statements the program queries with, each
\* row an object keyed by column name; no rows for any other statement
stmt_all(sql) ==
    CASE sql = "SELECT 1 AS id, 'a' AS name" ->
             <<[id |-> JsNumber("1"), name |-> JsString("a")]>>
      [] sql = "SELECT NULL AS id, 1.5 AS name" ->
             <<[id |-> JsNull, name |-> JsNumber("1.5")]>>
      [] sql = "SELECT 2 AS id UNION ALL SELECT 1" ->
             <<[id |-> JsNumber("2")], [id |-> JsNumber("1")]>>
      [] sql = "SELECT x'00' AS id, 'a' AS name" ->
             <<[id |-> JsBuffer, name |-> JsString("a")]>>
      [] sql = "SELECT 1e20 AS id, 9223372036854775807 AS name" ->
             <<[id |-> JsNumber("1e20"), name |-> JsNumber("2^63")]>>
      [] OTHER -> <<>>

\* JSON.stringify of one value, as the token the receiver parses. A number
\* is written without fraction and exponent when it is integral and below
\* 1e21; range says whether such digits fit int64_t, uint64_t or neither.
\* A Buffer has a toJSON method and comes out as an object.
JsonValue(x) ==
    CASE x.js = "null" ->
             [kind |-> "null", integral |-> FALSE, range |-> "", text |-> "null"]
      [] x.js = "string" ->
             [kind |-> "string", integral |-> FALSE, range |-> "", text |-> x.v]
      [] x.js = "Buffer" ->
             [kind |-> "object", integral |-> FALSE, range |-> "",
              text |-> "{\"type\":\"Buffer\",\"data\":[0]}"]
      [] x.v = "1.5" ->
             [kind |-> "number", integral |-> FALSE, range |-> "", text |-> "1.5"]
      [] x.v = "1e20" ->
             [kind |-> "number", integral |-> TRUE, range |-> "beyond",
              text |-> "100000000000000000000"]
      [] x.v = "2^63" ->
             [kind |-> "number", integral |-> TRUE, range |-> "uint64",
              text |-> "9223372036854776000"]
      [] OTHER ->
             [kind |-> "number", integral |-> TRUE, range |-> "int64",
              text |-> x.v]

\* JSON.stringify(rows)
JsonRows(rows) ==
    [i \in DOMAIN rows |-> [col \in DOMAIN rows[i] |-> JsonValue(rows[i][col])]]

\* POST /exec and POST /query: the statement runs, or sqlite throws and the
\* catch block answers 500 with its message; /query answers with the rows
StatementEndpoint(st, pathname, body) ==
    [st |-> st,
     resp |-> IF ~\E e \in st.databases : e.id = body.id
              THEN Answer(400, FALSE, 0, <<>>, FALSE, "Database not open")
              ELSE IF body.sql = "bad"
              THEN Answer(500, FALSE, 0, <<>>, FALSE, "SQL error")
              ELSE IF pathname = "/query"
              THEN [Answer(200, TRUE, 0, <<>>, FALSE, "") EXCEPT
                       !.rows = JsonRows(stmt_all(body.sql))]
              ELSE Answer(200, TRUE, 0, <<>>, FALSE, "")]

handleRequest(st, pathname, body) ==
    CASE pathname = "/open" -> OpenEndpoint(st, body)
      [] pathname = "/close" -> CloseEndpoint(st, body)
      [] pathname = "/shutdown" -> ShutdownEndpoint(st, body)
      [] pathname \in {"/exec", "/query"} -> StatementEndpoint(st, pathname, body)
      [] OTHER -> [st |-> st, resp |-> Answer(404, FALSE, 0, <<>>, FALSE, "Not found")]

\* who listens on the bridge's port
Listener == IF port_ \in Ports THEN bound[port_] ELSE Free

\* http_post(port_, pathname, body): the listener on port_ handles the
\* request and its answer is the body returned; the result is the body and
\* the memory of the processes afterwards
Posted(pathname, body) ==
    IF Listener \in 1..Len(procs)
    THEN LET out == handleRequest(Companion(Listener), pathname, body) IN
         [resp |-> out.resp,
          mem |-> [databases |-> [databases EXCEPT ![Listener] = out.st.databases],
                   absolutePathsInUse |->
                       [absolutePathsInUse EXCEPT
                           ![Listener] = out.st.absolutePathsInUse],
                   dbIdCounter |->
                       [dbIdCounter EXCEPT ![Listener] = out.st.dbIdCounter]]]
    ELSE [resp |-> IF Listener = Foreign THEN GarbageBody ELSE EmptyBody,
          mem |-> ProcessMemory]

\* http_post as a step of the caller
http_post(pathname, body) ==
    LET out == Posted(pathname, body)
    IN  /\ response' = out.resp
        /\ Remember(out.mem)

\* ------------------------------------------------------------------------
\* Data Handles (Database) and DatabaseBridge::stop
\* ------------------------------------------------------------------------
Handle(db_id_, path_, last_error_) ==
    [db_id_ |-> db_id_, path_ |-> path_, last_error_ |-> last_error_]

NoCall == [op |-> "none", path |-> <<>>, h |-> 0, pathname |-> "", sql |-> ""]

EmptyJson == [path |-> <<>>, id |-> 0]

StorageInit ==
    /\ databases = [p \in 1..MaxLaunches |-> {}]
    /\ absolutePathsInUse = [p \in 1..MaxLaunches |-> {}]
    /\ dbIdCounter = [p \in 1..MaxLaunches |-> 0]
    /\ handles = <<>>
    /\ call = NoCall
    /\ response = EmptyBody
    /\ rpcs = <<>>
    /\ result = "none"
    /\ db_result = <<>>

\* DatabaseBridge::request, last line: return http_post(port_, endpoint, body);
\* sofar are the requests the running operation has sent already
request_send(sofar, pathname, body) ==
    /\ rpcs' = Append(sofar, pathname)
    /\ http_post(pathname, body)

\* DatabaseBridge::request, start() failed: return ""
request_none ==
    /\ rpcs' = rpcs
    /\ response' = EmptyBody
    /\ UNCHANGED companionVars

\* a request() that posts whatever start() returned
RequestReturnAlways(pathname, body) == request_send(rpcs, pathname, body)

\* DatabaseBridge::request once the start() it called has returned
request_return(pathname, body) ==
    IF ret[MainCaller] = "ok"
    THEN request_send(rpcs, pathname, body)
    ELSE request_none

\* a constructor that takes every JSON answer for a success
OpenedHandleAnyAnswer(path, r) ==
    IF r.kind = "empty"
    THEN Handle(0, path, "Failed to connect to database bridge")
    ELSE IF r.kind # "json"
    THEN Handle(0, path, "JSON parse error")
    ELSE Handle(r.id, r.path, "")

\* Database::Database, the decoding of the body r that request() returned
OpenedHandle(path, r) ==
    IF r.kind = "empty"
    THEN Handle(0, path, "Failed to connect to database bridge")
    ELSE IF r.kind # "json"
    THEN Handle(0, path, "JSON parse error")
    ELSE IF r.ok
    THEN Handle(r.id, r.path, "")
    ELSE Handle(0, path, r.error)

\* Database::Database, first statement: bridge_->start()
Database(path) ==
    /\ call = NoCall
    /\ Len(handles) < MaxHandles
    /\ start(MainCaller)
    /\ call' = [NoCall EXCEPT !.op = "open", !.path = path]
    /\ rpcs' = <<>>
    /\ UNCHANGED <<companionVars, handles, response>>
    /\ result' = "none"
    /\ db_result' = <<>>
    /\ UNCHANGED <<pipelineVars, fleetVars>>

\* Database::Database once start() has returned: the /open request (the
\* bridge is marked running, so request() goes straight to http_post) and
\* the decoding of its answer
Database_open ==
    /\ call.op = "open"
    /\ pc[MainCaller] = "idle"
    /\ IF ret[MainCaller] # "ok"
       THEN /\ handles' = Append(handles,
                   Handle(0, call.path, "Database bridge not available"))
            /\ UNCHANGED <<companionVars, response, rpcs>>
       ELSE /\ request_send(rpcs, "/open",
                   [path |-> IF call.path = <<>> THEN <<"default.db">>
                             ELSE call.path,
                    id |-> 0])
            /\ handles' = Append(handles, OpenedHandle(call.path, response'))
    /\ call' = NoCall
    /\ UNCHANGED <<bridgeVars, pipelineVars, fleetVars>>
    /\ result' = "none"
    /\ db_result' = <<>>

\* Database::Database(Database&&): the new handle takes the fields of
\* handle h; h keeps no id and no bridge, and its strings are left in a
\* valid but unspecified state (unchanged or empty). bridge_ is null in
\* moved-from handles only, so a handle without bridge has no id either.
Database_move(h) ==
    /\ call = NoCall
    /\ pc[MainCaller] = "idle"
    /\ Len(handles) < MaxHandles
    /\ \E keep \in BOOLEAN :
          handles' = Append(
              [handles EXCEPT ![h] =
                  IF keep THEN [@ EXCEPT !.db_id_ = 0] ELSE Handle(0, <<>>, "")],
              handles[h])
    /\ rpcs' = <<>>
    /\ UNCHANGED <<companionVars, call, response>>
    /\ result' = "none"
    /\ db_result' = <<>>
    /\ UNCHANGED <<bridgeVars, pipelineVars, fleetVars>>

\* a close() that forgets db_id_.clear()
ClearKeepsId(hd) == hd

\* Database::close, last statement: db_id_.clear()
clear_id(hd) == [hd EXCEPT !.db_id_ = 0]

\* Database::close: nothing on a handle without id; else request("/close"),
\* which calls start() first when the bridge is not marked running, and
\* db_id_.clear()
Database_close(h) ==
    /\ call = NoCall
    /\ pc[MainCaller] = "idle"
    /\ IF handles[h].db_id_ = 0
       THEN /\ rpcs' = <<>>
            /\ UNCHANGED <<companionVars, handles, call, response, bridgeVars>>
       ELSE IF running_
       THEN /\ request_send(<<>>, "/close",
                            [path |-> <<>>, id |-> handles[h].db_id_])
            /\ handles' = [handles EXCEPT ![h] = clear_id(@)]
            /\ UNCHANGED <<call, bridgeVars>>
       ELSE /\ start(MainCaller)
            /\ call' = [NoCall EXCEPT !.op = "close", !.h = h]
            /\ rpcs' = <<>>
            /\ UNCHANGED <<companionVars, handles, response>>
    /\ UNCHANGED <<pipelineVars, fleetVars>>
    /\ result' = "none"
    /\ db_result' = <<>>

\* Database::close once the start() inside request() has returned
Database_close_request ==
    /\ call.op = "close"
    /\ pc[MainCaller] = "idle"
    /\ request_return("/close", [path |-> <<>>, id |-> handles[call.h].db_id_])
    /\ handles' = [handles EXCEPT ![call.h] = clear_id(@)]
    /\ call' = NoCall
    /\ UNCHANGED <<bridgeVars, pipelineVars, fleetVars>>
    /\ result' = "none"
    /\ db_result' = <<>>

\* a test that takes every handle for open
IsOpenAlways(hd) == TRUE

\* Database::is_open
is_open(hd) == hd.db_id_ # 0

\* an exec that reports no error for an ok = false answer
ExecOutcomeSilent(r) ==
    IF r.kind = "empty"
    THEN [last_error_ |-> "Failed to execute query", result |-> "zero"]
    ELSE IF r.kind # "json"
    THEN [last_error_ |-> "JSON parse error", result |-> "zero"]
    ELSE IF r.ok
    THEN [last_error_ |-> "", result |-> "data"]
    ELSE [last_error_ |-> "", result |-> "zero"]

\* Database::exec / Database::query, the decoding of the body r that
\* request() returned: the error text and whether the result was filled
ExecOutcome(r) ==
    IF r.kind = "empty"
    THEN [last_error_ |-> "Failed to execute query", result |-> "zero"]
    ELSE IF r.kind # "json"
    THEN [last_error_ |-> "JSON parse error", result |-> "zero"]
    ELSE IF r.ok
    THEN [last_error_ |-> "", result |-> "data"]
    ELSE [last_error_ |-> r.error, result |-> "zero"]

\* nlohmann::json: a number token is an integer (number_integer or
\* number_unsigned) when it has digits only and fits int64_t or uint64_t,
\* and a float otherwise
is_number_integer(val) ==
    val.kind = "number" /\ val.integral /\ val.range \in {"int64", "uint64"}

is_number(val) == val.kind = "number"

\* Database::query, the columns of a row that get an entry in the DbRow
Decoded(row) ==
    {key \in DOMAIN row : row[key].kind \in {"null", "number", "string"}}

\* Database::query, the DbValue stored for the JSON value val
DbValue(val) ==
    IF val.kind = "null" THEN [type |-> "nullptr_t", text |-> "null"]
    ELSE IF is_number_integer(val)
    THEN [type |-> "int64_t",
          text |-> IF val.range = "uint64"
                   THEN "-9223372036854775616" ELSE val.text]
    ELSE IF is_number(val) THEN [type |-> "double", text |-> val.text]
    ELSE [type |-> "string", text |-> val.text]

\* Database::query, the loop over json["rows"]
DecodeRows(rows) ==
    [i \in DOMAIN rows |-> [key \in Decoded(rows[i]) |-> DbValue(rows[i][key])]]

\* the DbResult returned: filled from an ok = true answer to /query only
QueryRows(pathname, r) ==
    IF pathname = "/query" /\ r.kind = "json" /\ r.ok
    THEN DecodeRows(r.rows)
    ELSE <<>>

\* Database::exec (pathname "/exec") and Database::query ("/query") with a
\* statement that sqlite accepts (sql "good") or rejects ("bad")
Database_exec(h, pathname, sql) ==
    /\ call = NoCall
    /\ pc[MainCaller] = "idle"
    /\ IF ~is_open(handles[h])
       THEN /\ handles' = [handles EXCEPT ![h].last_error_ = "Database not open"]
            /\ result' = "zero"
            /\ db_result' = <<>>
            /\ rpcs' = <<>>
            /\ UNCHANGED <<companionVars, call, response, bridgeVars>>
       ELSE IF running_
       THEN /\ request_send(<<>>, pathname,
                   [path |-> <<>>, id |-> handles[h].db_id_, sql |-> sql])
            /\ handles' = [handles EXCEPT
                              ![h].last_error_ = ExecOutcome(response').last_error_]
            /\ result' = ExecOutcome(response').result
            /\ db_result' = QueryRows(pathname, response')
            /\ UNCHANGED <<call, bridgeVars>>
       ELSE /\ start(MainCaller)
            /\ call' = [NoCall EXCEPT !.op = "exec", !.h = h,
                                      !.pathname = pathname, !.sql = sql]
            /\ rpcs' = <<>>
            /\ handles' = [handles EXCEPT ![h].last_error_ = ""]
            /\ UNCHANGED <<companionVars, response>>
            /\ result' = "none"
            /\ db_result' = <<>>
    /\ UNCHANGED <<pipelineVars, fleetVars>>

\* Database::exec / Database::query once the start() inside request() has
\* returned
Database_exec_request ==
    /\ call.op = "exec"
    /\ pc[MainCaller] = "idle"
    /\ request_return(call.pathname,
           [path |-> <<>>, id |-> handles[call.h].db_id_, sql |-> call.sql])
    /\ handles' = [handles EXCEPT
                      ![call.h].last_error_ = ExecOutcome(response').last_error_]
    /\ result' = ExecOutcome(response').result
    /\ db_result' = QueryRows(call.pathname, response')
    /\ call' = NoCall
    /\ UNCHANGED <<bridgeVars, pipelineVars, fleetVars>>

\* a stop() that sends no signal
KillNothing(p, mem) == UNCHANGED <<procs, bound>> /\ Remember(mem)

\* kill(p, SIGTERM) when the memory of the processes is mem: server.js
\* cleanup() closes the server and exits
kill(p, mem) ==
    IF Alive(p)
    THEN exit(p, mem)
    ELSE UNCHANGED <<procs, bound>> /\ Remember(mem)

\* DatabaseBridge::stop
bridge_stop ==
    /\ call = NoCall
    /\ pc[MainCaller] = "idle"
    /\ IF ~running_
       THEN /\ rpcs' = <<>>
            /\ UNCHANGED <<companionVars, response, bridgeVars>>
       ELSE /\ LET out == IF port_ > 0
                          THEN Posted("/shutdown", EmptyJson)
                          ELSE [resp |-> response, mem |-> ProcessMemory]
               IN  /\ response' = out.resp
                   /\ rpcs' = IF port_ > 0 THEN <<"/shutdown">> ELSE <<>>
                   /\ IF bridge_pid_ > 0
                      THEN kill(bridge_pid_, out.mem)
                      ELSE UNCHANGED <<procs, bound>> /\ Remember(out.mem)
            /\ bridge_pid_' = 0
            /\ running_' = FALSE
            /\ port_' = 0
            /\ UNCHANGED <<pc, poll_i, pid, ret, health, report>>
    /\ UNCHANGED <<handles, call, pipelineVars, fleetVars>>
    /\ result' = "none"
    /\ db_result' = <<>>

\* the paths the program opens
OpenPaths == {<<>>, <<".", "default.db">>, <<"/", "abs.db">>}

NextStorage ==
    \/ \E path \in OpenPaths : Database(path)
    \/ Database_open
    \/ \E h \in 1..Len(handles) : Database_close(h)
    \/ Database_close_request
    \/ bridge_stop
    \/ StartLaunch(MainCaller)
    \/ StartPoll(MainCaller, RacePolls)
    \/ StartFail(MainCaller)
    \/ \E p \in 1..Len(procs) : CompanionListen(p)
    \/ \E p \in 1..Len(procs) : CompanionExit(p)

\* the path of a program that opens the default database only
StatementPaths == {<<>>}

\* the statements the program runs
Statements == {"good", "bad"}

\* a program that opens the default database, moves handles, runs
\* statements and stops the bridge
NextStatements ==
    \/ \E path \in StatementPaths : Database(path)
    \/ Database_open
    \/ \E h \in 1..Len(handles) : Database_move(h)
    \/ \E h \in 1..Len(handles), pathname \in {"/exec", "/query"},
          sql \in Statements : Database_exec(h, pathname, sql)
    \/ Database_exec_request
    \/ bridge_stop
    \/ StartLaunch(MainCaller)
    \/ StartPoll(MainCaller, RacePolls)
    \/ StartFail(MainCaller)
    \/ \E p \in 1..Len(procs) : CompanionListen(p)
    \/ \E p \in 1..Len(procs) : CompanionExit(p)

\* the statements of a program that reads rows
QueryStatements == {"SELECT 1 AS id, 'a' AS name",
                    "SELECT NULL AS id, 1.5 AS name",
                    "SELECT 2 AS id UNION ALL SELECT 1",
                    "SELECT x'00' AS id, 'a' AS name",
                    "SELECT 1e20 AS id, 9223372036854775807 AS name",
                    "SELECT 1 AS id WHERE 0"}

\* a program that opens the default database, queries it and stops the
\* bridge
NextQuery ==
    \/ \E path \in StatementPaths : Database(path)
    \/ Database_open
    \/ \E h \in 1..Len(handles), sql \in QueryStatements :
          Database_exec(h, "/query", sql)
    \/ Database_exec_request
    \/ bridge_stop
    \/ StartLaunch(MainCaller)
    \/ StartPoll(MainCaller, RacePolls)
    \/ StartFail(MainCaller)
    \/ \E p \in 1..Len(procs) : CompanionListen(p)
    \/ \E p \in 1..Len(procs) : CompanionExit(p)

\* a program that opens the default database more than once, runs
\* statements and closes handles
NextShared ==
    \/ \E path \in StatementPaths : Database(path)
    \/ Database_open
    \/ \E h \in 1..Len(handles) : Database_close(h)
    \/ \E h \in 1..Len(handles), pathname \in {"/exec", "/query"} :
          Database_exec(h, pathname, "good")
    \/ StartLaunch(MainCaller)
    \/ StartPoll(MainCaller, RacePolls)
    \/ StartFail(MainCaller)
    \/ \E p \in 1..Len(procs) : CompanionListen(p)
    \/ \E p \in 1..Len(procs) : CompanionExit(p)

\* ------------------------------------------------------------------------
\* Properties of the storage process
\* ------------------------------------------------------------------------
\* the step in which process p answers the /open request of a constructor
OpenAnswered(p) ==
    /\ call.op = "open"
    /\ call' = NoCall
    /\ ret[MainCaller] = "ok"
    /\ Listener = p

\* entry e of process p is still held by a Data Handle
StillOpen(p, e) ==
    /\ e \in databases[p]
    /\ \E h \in 1..Len(handles) :
          handles[h].db_id_ = e.id /\ handles[h].path_ = e.path

\* C10: when the server opens a path (empty, relative or absolute) whose
\* earlier open is still open, the companion answers ok with the id of the
\* earlier open and reused = true, and its table gets no second entry.
C10_ReuseOnReopen ==
    [][\A p \in 1..Len(procs) : \A e \in databases[p] :
          (/\ OpenAnswered(p)
           /\ StillOpen(p, e)
           /\ e.path = resolveDbPath(ServerId, call.path).path)
          => (/\ response'.ok
              /\ response'.id = e.id
              /\ response'.reused
              /\ databases'[p] = databases[p])
      ]_vars

\* ------------------------------------------------------------------------
\* Properties of the Data Handles
\* ------------------------------------------------------------------------
\* the body of the request exec/query sends for the call in progress
CallBody == [path |-> <<>>, id |-> handles[call.h].db_id_, sql |-> call.sql]

\* the step in which the request() of an exec/query returns after the
\* start() it had to call
RequestAfterStart == call.op = "exec" /\ call' = NoCall

\* between two operations, with the bridge marked running
IdleRunning == call = NoCall /\ pc[MainCaller] = "idle" /\ running_

\* the step of an exec/query on the open handle h of a bridge marked running
RequestDirect(h, pathname, sql) ==
    /\ IdleRunning
    /\ is_open(handles[h])
    /\ Database_exec(h, pathname, sql)

\* C13: request() on an instance not marked running calls start() first
\* and, when start() fails, returns the empty result and sends nothing;
\* otherwise it sends exactly one RPC and returns that call's body, which is
\* the empty result when nothing listens on the port.
C13_RequestContract ==
    [][/\ (call = NoCall /\ call'.op = "exec") => ~running_
       /\ call'.op = "exec" => rpcs' = <<>>
       /\ (RequestAfterStart /\ ret[MainCaller] # "ok")
          => (/\ rpcs' = <<>>
              /\ response' = EmptyBody
              /\ UNCHANGED companionVars)
       /\ (RequestAfterStart /\ ret[MainCaller] = "ok")
          => (/\ rpcs' = <<call.pathname>>
              /\ response' = Posted(call.pathname, CallBody).resp
              /\ (Listener \notin 1..Len(procs) => response' = EmptyBody))
       /\ IdleRunning
          => \A h \in {g \in 1..Len(handles) : is_open(handles[g])},
                pathname \in {"/exec", "/query"}, sql \in Statements :
                RequestDirect(h, pathname, sql)
                => (/\ rpcs' = <<pathname>>
                    /\ response' = Posted(pathname,
                           [path |-> <<>>, id |-> handles[h].db_id_,
                            sql |-> sql]).resp
                    /\ (Listener \notin 1..Len(procs) => response' = EmptyBody))
      ]_vars

\* an exec/query whose start() failed has returned the empty result
C13_Witness ==
    /\ call = NoCall
    /\ ret[MainCaller] = "fail"
    /\ rpcs = <<>>
    /\ result = "zero"
    /\ response = EmptyBody
    /\ \E h \in 1..Len(handles) :
          is_open(handles[h]) /\ handles[h].last_error_ = "Failed to execute query"

\* the step in which a constructor returns, and the handle it has built
Constructed == call.op = "open" /\ call' = NoCall

NewHandle == handles'[Len(handles')]

\* the constructor's /open request was sent and the companion answered ok
OpenOk ==
    /\ ret[MainCaller] = "ok"
    /\ rpcs' = <<"/open">>
    /\ response'.kind = "json" /\ response'.ok

\* C14: a constructed handle is open, with the id and the resolved path of
\* the companion's answer, exactly when the companion answered ok = true;
\* otherwise (start() failed, empty response, 409 or another ok = false
\* answer) it holds no id and a non-empty last_error_, which is the
\* companion's error text when the companion sent one.
C14_OpenOutcome ==
    [][Constructed =>
          /\ Len(handles') = Len(handles) + 1
          /\ is_open(NewHandle) <=> OpenOk
          /\ OpenOk => /\ NewHandle.db_id_ = response'.id
                       /\ NewHandle.path_ = response'.path
                       /\ NewHandle.path_ = resolveDbPath(ServerId, call.path).path
                       /\ \E e \in databases'[Listener] :
                             e.id = NewHandle.db_id_ /\ e.path = NewHandle.path_
          /\ ~OpenOk => /\ NewHandle.db_id_ = 0
                        /\ NewHandle.last_error_ # ""
          /\ (ret[MainCaller] = "ok" /\ response'.kind = "json" /\ ~response'.ok)
             => /\ response'.error # ""
                /\ NewHandle.last_error_ = response'.error
      ]_vars

\* one handle holds an absolute path and a second open of the path was
\* refused with the companion's 409 message
C14_Witness ==
    /\ call = NoCall
    /\ Len(handles) = 2
    /\ is_open(handles[1]) /\ handles[1].path_ = <<"/", "abs.db">>
    /\ ~is_open(handles[2])
    /\ handles[2].last_error_ = "Database already in use"
    /\ response.status = 409

\* the step of an exec/query on a handle that holds no id
NotOpenCall(h, pathname, sql) ==
    /\ call = NoCall /\ pc[MainCaller] = "idle"
    /\ handles[h].db_id_ = 0
    /\ Database_exec(h, pathname, sql)

\* C15: exec and query on a handle without id (failed open, moved-from)
\* set last_error_ to "Database not open", return the zero result, send no
\* request and do not call start(): the bridge, the processes and their
\* memory stay as they are.
C15_NotOpen ==
    [][(call = NoCall /\ pc[MainCaller] = "idle")
       => \A h \in {g \in 1..Len(handles) : handles[g].db_id_ = 0},
             pathname \in {"/exec", "/query"}, sql \in Statements :
             NotOpenCall(h, pathname, sql)
             => (/\ handles'[h].last_error_ = "Database not open"
                 /\ handles'[h].db_id_ = 0
                 /\ result' = "zero"
                 /\ rpcs' = <<>>
                 /\ call' = NoCall
                 /\ UNCHANGED <<bridgeVars, companionVars, response>>)
      ]_vars

\* a statement was run on a moved-from handle while the bridge was stopped
\* and the handle that took its id is still open
C15_Witness ==
    /\ call = NoCall
    /\ Len(handles) = 2
    /\ handles[1].db_id_ = 0 /\ handles[1].last_error_ = "Database not open"
    /\ is_open(handles[2])
    /\ result = "zero" /\ rpcs = <<>>
    /\ ~running_

\* the companion answered ok = true to the request just sent
AnsweredOk == response'.kind = "json" /\ response'.ok

CloseReturned(h) ==
    \/ call.op = "close" /\ call.h = h /\ call' = NoCall
    \/ /\ call = NoCall /\ pc[MainCaller] = "idle"
       /\ is_open(handles[h]) /\ running_
       /\ Database_close(h)

\* a close() of the handle h, which holds no id
FurtherClose(h) ==
    /\ call = NoCall /\ pc[MainCaller] = "idle"
    /\ ~is_open(handles[h])
    /\ Database_close(h)

\* C17: the first close() on an open handle sends one /close RPC and
\* clears the handle's id whatever the answer; every further close() sends
\* nothing and changes nothing.
C17_CloseSendsOne ==
    [][\A h \in 1..Len(handles) :
          /\ CloseReturned(h)
             => (rpcs' = <<"/close">> /\ ~is_open(handles'[h]))
          /\ FurtherClose(h)
             => (/\ rpcs' = <<>>
                 /\ UNCHANGED <<handles, call, response, companionVars, bridgeVars>>)
      ]_vars

\* C17 amended: the first close() on an open handle sends at most one
\* /close RPC (exactly one when the bridge is marked running or the start()
\* that request() calls succeeds, none when that start() fails) and clears
\* the handle's id in every case; every further close() sends nothing and
\* changes nothing.
C17_CloseAtMostOne ==
    [][\A h \in 1..Len(handles) :
          /\ CloseReturned(h)
             => (/\ rpcs' = IF call = NoCall \/ ret[MainCaller] = "ok"
                            THEN <<"/close">> ELSE <<>>
                 /\ ~is_open(handles'[h])
                 /\ handles' = [handles EXCEPT ![h].db_id_ = 0])
          /\ FurtherClose(h)
             => (/\ rpcs' = <<>>
                 /\ UNCHANGED <<handles, call, response, companionVars, bridgeVars>>)
      ]_vars

\* a handle that was open has been closed after the bridge was stopped and
\* could not be started again: nothing was sent
C17_Witness ==
    /\ call = NoCall
    /\ ret[MainCaller] = "fail"
    /\ ~running_
    /\ rpcs = <<>>
    /\ response = EmptyBody
    /\ Len(handles) = 1
    /\ ~is_open(handles[1]) /\ handles[1].last_error_ = ""

\* a call of stop() between two operations
StopCall == call = NoCall /\ pc[MainCaller] = "idle" /\ bridge_stop

\* C19: stop() on an instance marked running sends /shutdown, which a
\* listening companion still answers, then terminates the process of the
\* handle whatever the answer was, and ends with running_ false, port_ 0 and
\* no process handle; on an instance not marked running it sends nothing
\* and changes nothing.
C19_Stop ==
    [][StopCall =>
          IF running_
          THEN /\ rpcs' = <<"/shutdown">>
               /\ response' = Posted("/shutdown", EmptyJson).resp
               /\ Listener \in 1..Len(procs) => response'.ok
               /\ bridge_pid_ > 0 => procs'[bridge_pid_].state = "dead"
               /\ \A q \in Ports : bound'[q] # bridge_pid_
               /\ running_' = FALSE /\ port_' = 0 /\ bridge_pid_' = 0
          ELSE /\ rpcs' = <<>>
               /\ UNCHANGED <<bridgeVars, companionVars, handles, response>>
      ]_vars

\* the bridge was stopped while its companion was listening: the companion
\* answered /shutdown and is gone
C19_Witness ==
    /\ call = NoCall
    /\ rpcs = <<"/shutdown">>
    /\ response.kind = "json" /\ response.ok
    /\ ~running_ /\ port_ = 0 /\ bridge_pid_ = 0
    /\ Len(procs) = 1 /\ ~Alive(1)
    /\ \A q \in Ports : bound[q] = Free

\* the entry step of the start() of an operation on an instance marked
\* running, whose /health request is answered by the instance's own companion
StartWhileHealthy ==
    /\ running_ /\ port_ # 0
    /\ call = NoCall /\ call' # NoCall
    /\ start(MainCaller)
    /\ HealthOk(health')

\* C18: start() on an instance that is marked running and whose health
\* check succeeds returns success in that step, launches no process and
\* leaves port_, bridge_pid_, running_, the processes and their memory as
\* they were, so any number of such calls has the effect of none.
C18_IdempotentStart ==
    [][StartWhileHealthy =>
          /\ ret'[MainCaller] = "ok"
          /\ pc'[MainCaller] = "idle"
          /\ Len(procs') = Len(procs)
          /\ UNCHANGED <<port_, bridge_pid_, running_, procs, bound, poll_i,
                         pid, companionVars>>
      ]_vars

\* a second constructor has called start() on the running bridge of an
\* open handle: start() has returned success and there is still one process
C18_Witness ==
    /\ call.op = "open"
    /\ pc[MainCaller] = "idle" /\ ret[MainCaller] = "ok"
    /\ Len(handles) = 1 /\ is_open(handles[1])
    /\ running_ /\ HealthOk(health)
    /\ Len(procs) = 1 /\ bridge_pid_ = 1 /\ procs[1].state = "listening"

\* the last operation was a query that the companion answered with ok = true
QueryAnswered ==
    /\ call = NoCall
    /\ rpcs # <<>> /\ rpcs[Len(rpcs)] = "/query"
    /\ response.kind = "json" /\ response.ok

\* the type the shape of a JSON value stands for
ShapeType(val) ==
    CASE val.kind = "null" -> "nullptr_t"
      [] val.kind = "number" /\ val.integral -> "int64_t"
      [] val.kind = "number" -> "double"
      [] val.kind = "string" -> "string"
      [] OTHER -> "other"

\* C22: for an ok = true answer, query returns one row per element of
\* rows, in order, and every column of every row is in the decoded row
\* with the type of the JSON value's shape: null for null, integer for an
\* integral number, floating-point for another number, string for a string.
C22_RowDecoding ==
    QueryAnswered =>
        /\ Len(db_result) = Len(response.rows)
        /\ \A i \in DOMAIN response.rows :
              \A col \in DOMAIN response.rows[i] :
                  /\ col \in DOMAIN db_result[i]
                  /\ ShapeType(response.rows[i][col]) # "other"
                     => db_result[i][col].type = ShapeType(response.rows[i][col])

\* C34: after stop() has completed, close() (or the destructor) of a handle
\* that was still open launches no companion process and leaves the bridge
\* not running with port 0. (A handle has an id only after a start()
\* succeeded, so close() finds the bridge not running only after stop().)
C34_CloseAfterStop ==
    [][(call.op = "close" \/ call'.op = "close") =>
          /\ Len(procs') = Len(procs)
          /\ ~running_' /\ port_' = 0]_vars

\* the companion rejects the statement: no database under that id
NotOpenAnswer(r) == r.kind = "json" /\ ~r.ok /\ r.error = "Database not open"

\* C35: close() on one handle leaves every other open handle of the bridge
\* usable: a statement sent through a handle for which is_open() holds (the
\* only handles exec and query send for) is never answered
\* 'Database not open' by the companion that issued the handle's id (the
\* only process launched so far).
C35_HandleIndependence ==
    [][(call = NoCall /\ call' = NoCall
          /\ rpcs' \in {<<"/exec">>, <<"/query">>}
          /\ Len(procs) = 1)
         => ~NotOpenAnswer(response')]_vars

\* ------------------------------------------------------------------------
\* One companion process serving concurrent clients (server.js handleRequest)
\* ------------------------------------------------------------------------
MaxIds == 3

\* the module-level state of server.js when the process has just started
FreshCompanion ==
    [databases |-> {}, absolutePathsInUse |-> {}, dbIdCounter |-> 0]

Clients == {1, 2}

Body(path, id, sql) == [path |-> path, id |-> id, sql |-> sql]

NoPending == [pathname |-> "", body |-> Body(<<>>, 0, "")]

NoLast == [client |-> 0, request |-> NoPending, resp |-> EmptyBody,
           fresh |-> FALSE, other |-> NoPending]

\* the state of server.js once it listens: module-level memory as at
\* start, no request in flight
ServiceInit ==
    service = [alive |-> TRUE, exiting |-> FALSE, st |-> FreshCompanion,
               pending |-> [c \in Clients |-> NoPending], last |-> NoLast]

ServicePaths == {<<"x.db">>, <<"/", "abs.db">>}

ServiceRequests ==
    {[pathname |-> "/open", body |-> Body(path, 0, "")] : path \in ServicePaths}
    \cup {[pathname |-> pn, body |-> Body(<<>>, id, "good")] :
              pn \in {"/close", "/exec"}, id \in 1..MaxIds}
    \cup {[pathname |-> "/shutdown", body |-> Body(<<>>, 0, "")]}

\* the path of the request is open in the process with memory st
PathOpen(st, request) ==
    \E e \in st.databases :
        e.path = resolveDbPath(ServerId, request.body.path).path

\* handleRequest up to "await parseBody(req)": the request of client c has
\* arrived and its body is being read
ServiceReceive(c, request) ==
    /\ service.alive
    /\ service.pending[c] = NoPending
    /\ request.pathname = "/open" => service.st.dbIdCounter < MaxIds
    /\ service' = [service EXCEPT !.pending[c] = request]
    /\ UNCHANGED <<fleet, pipelineVars, bridgeVars, storageVars>>

\* handleRequest after parseBody has resolved: the rest of the handler has
\* no await, so it runs up to sendJson before any other request continues;
\* /shutdown also sets the timer that ends the process
ServiceHandle(c) ==
    /\ service.alive
    /\ service.pending[c] # NoPending
    /\ LET request == service.pending[c]
           out == handleRequest(service.st, request.pathname, request.body)
       IN  service' =
               [service EXCEPT
                   !.st = out.st,
                   !.pending[c] = NoPending,
                   !.exiting = @ \/ request.pathname = "/shutdown",
                   !.last = [client |-> c, request |-> request,
                             resp |-> out.resp,
                             fresh |-> /\ request.pathname = "/open"
                                       /\ ~PathOpen(service.st, request),
                             other |-> service.pending[CHOOSE d \in Clients : d # c]]]
    /\ UNCHANGED <<fleet, pipelineVars, bridgeVars, storageVars>>

\* setTimeout(() => process.exit(0), 100) after /shutdown
ServiceExit ==
    /\ service.alive /\ service.exiting
    /\ service' = [alive |-> FALSE, exiting |-> FALSE, st |-> FreshCompanion,
                   pending |-> [c \in Clients |-> NoPending], last |-> NoLast]
    /\ UNCHANGED <<fleet, pipelineVars, bridgeVars, storageVars>>

NextService ==
    \/ \E c \in Clients, request \in ServiceRequests : ServiceReceive(c, request)
    \/ \E c \in Clients : ServiceHandle(c)
    \/ ServiceExit

\* ------------------------------------------------------------------------
\* Two logical servers: one Bridge Instance and one companion process each
\* ------------------------------------------------------------------------
Servers == {ServerId, OtherId}

FleetInit ==
    /\ fleet = [s \in Servers |->
                [running |-> FALSE, st |-> FreshCompanion, answer |-> EmptyBody]]
    /\ ServiceInit

\* what the start() call of a Database constructor can end in: the running
\* companion passed the health test, a new process was forked, or failure
StartOutcomes(running) ==
    IF running THEN {"same", "fresh", "fail"} ELSE {"fresh", "fail"}

\* Database::Database(bridge, path) on the Bridge Instance of server sid:
\* start(), then /open, answered by the process this instance forked
FleetOpen(sid, path) ==
    /\ \E outcome \in StartOutcomes(fleet[sid].running) :
          LET st0 == IF outcome = "same" THEN fleet[sid].st ELSE FreshCompanion
              out == OpenEndpointOf(sid, st0,
                        [path |-> IF path = <<>> THEN <<"default.db">> ELSE path,
                         id |-> 0])
          IN  /\ st0.dbIdCounter < MaxHandles
              /\ fleet' = [fleet EXCEPT ![sid] =
                    IF outcome = "fail"
                    THEN [@ EXCEPT !.answer = EmptyBody]
                    ELSE [running |-> TRUE, st |-> out.st, answer |-> out.resp]]
    /\ UNCHANGED <<service, pipelineVars, bridgeVars, storageVars>>

\* Database::close on a handle of server sid that holds the id: /close,
\* answered by the running companion of that instance
FleetClose(sid, id) ==
    /\ fleet[sid].running
    /\ \E e \in fleet[sid].st.databases : e.id = id
    /\ LET out == CloseEndpoint(fleet[sid].st, [path |-> <<>>, id |-> id]) IN
       fleet' = [fleet EXCEPT ![sid] =
                    [running |-> TRUE, st |-> out.st, answer |-> out.resp]]
    /\ UNCHANGED <<service, pipelineVars, bridgeVars, storageVars>>

\* the paths the two servers open
FleetPaths == {<<"x.db">>, <<"..", "Dbserver_B", "x.db">>, <<"/", "abs.db">>}

NextFleet ==
    \/ \E sid \in Servers, path \in FleetPaths : FleetOpen(sid, path)
    \/ \E sid \in Servers, id \in 1..MaxHandles : FleetClose(sid, id)

\* ------------------------------------------------------------------------
\* Properties of two logical servers
\* ------------------------------------------------------------------------
\* the databases server sid holds open
OpenBy(sid) == fleet[sid].st.databases

\* C11: an absolute path is never open on behalf of two logical servers at
\* once: of two opens of the same absolute path by different servers, with
\* no close in between, one is rejected.
C11_AbsoluteConflict ==
    \A a \in OpenBy(ServerId), b \in OpenBy(OtherId) :
        (a.isAbsolute /\ b.isAbsolute) => a.path # b.path

\* C12: the storage paths two different servers resolve from non-absolute
\* paths differ, and each lies under the Dbserver_<id> directory of its
\* own server.
C12_RelativeNamespacing ==
    /\ \A a \in OpenBy(ServerId), b \in OpenBy(OtherId) :
          (~a.isAbsolute /\ ~b.isAbsolute) => a.path # b.path
    /\ \A sid \in Servers : \A e \in OpenBy(sid) :
          ~e.isAbsolute => StartsWith(e.path, SERVER_DB_DIR(sid))

\* ------------------------------------------------------------------------
\* Properties of the companion under concurrent clients
\* ------------------------------------------------------------------------
\* the table of open databases holds no two entries with the same path
UniquePaths ==
    \A e, f \in service.st.databases : e.path = f.path => e = f

\* client c's /open continues right after the /open of the other client for
\* the same path, which was not open then; both requests were in flight
\* together
RacingOpen(c) ==
    /\ service.pending[c].pathname = "/open"
    /\ service'.last.client = c
    /\ service.last.client \in Clients \ {c}
    /\ service.last.request = service.pending[c]
    /\ service.last.other = service.pending[c]
    /\ service.last.fresh

\* C36: under any interleaving of /open and /close requests in one
\* companion, the table of open databases never holds two entries with the
\* same resolved path, and of two concurrent /open requests for the same
\* path that was not open, both get the same handle id and exactly one is
\* not marked reused.
C36_ConcurrentOpen ==
    /\ []UniquePaths
    /\ [][\A c \in Clients :
             RacingOpen(c) =>
                 /\ service.last.resp.ok /\ service'.last.resp.ok
                 /\ service'.last.resp.id = service.last.resp.id
                 /\ ~service.last.resp.reused
                 /\ service'.last.resp.reused]_vars

\* the resolved paths of the open databases that were opened by absolute path
OpenAbsolutePaths ==
    {e.path : e \in {f \in service.st.databases : f.isAbsolute}}

\* the companion continues an /open of an absolute path no open database has
OpensClosedAbsolute ==
    \E c \in Clients :
        /\ service.pending[c].pathname = "/open"
        /\ resolveDbPath(ServerId, service.pending[c].body.path).isAbsolute
        /\ ~PathOpen(service.st, service.pending[c])
        /\ service'.last.client = c
        /\ service'.pending[c] = NoPending

\* C37: after any sequence of /open, /close and /shutdown requests the
\* in-use set of absolute paths is exactly the set of resolved paths of the
\* open databases that were opened by absolute path; an absolute path that
\* no open database has (never opened, or closed again) can be opened.
C37_InUseExact ==
    /\ [](service.st.absolutePathsInUse = OpenAbsolutePaths)
    /\ [][OpensClosedAbsolute =>
             /\ service'.last.resp.ok
             /\ ~service'.last.resp.reused
             /\ service'.last.resp.path \in service'.st.absolutePathsInUse]_vars

\* /abs.db has just been opened as the second database of the process, the
\* first one (id 1) being closed by then: it is the only path in use
C37_Witness ==
    /\ service.last.request.pathname = "/open"
    /\ service.last.request.body.path = <<"/", "abs.db">>
    /\ service.last.resp.ok /\ service.last.resp.id = 2
    /\ service.st.databases =
           {[id |-> 2, path |-> <<"/", "abs.db">>, isAbsolute |-> TRUE]}
    /\ service.st.absolutePathsInUse = {<<"/", "abs.db">>}

\* the ids the process has issued so far
Issued == 1..service.st.dbIdCounter

\* the companion continues an /exec whose id it issued and has closed
StaleExec ==
    \E c \in Clients :
        /\ service.pending[c].pathname = "/exec"
        /\ service.pending[c].body.id \in Issued
        /\ \A e \in service.st.databases : e.id # service.pending[c].body.id
        /\ service'.last.client = c
        /\ service'.pending[c] = NoPending

\* C38: a companion process never issues a handle id twice while it lives:
\* every open database has an issued id, an issued id never comes to denote
\* a database it did not denote before, and a statement sent with an id that
\* was closed is rejected and changes no database.
C38_IdsNeverReissued ==
    /\ [](\A e \in service.st.databases : e.id \in Issued)
    /\ [][service'.alive =>
             /\ service'.st.dbIdCounter >= service.st.dbIdCounter
             /\ \A e \in service'.st.databases :
                    e.id \in Issued => e \in service.st.databases]_vars
    /\ [][StaleExec =>
             /\ NotOpenAnswer(service'.last.resp)
             /\ service'.st = service.st]_vars

\* /exec with id 1, closed by then, was rejected while the database with
\* id 2 is open
C38_Witness ==
    /\ service.last.request.pathname = "/exec"
    /\ service.last.request.body.id = 1
    /\ NotOpenAnswer(service.last.resp)
    /\ service.st.dbIdCounter = 2
    /\ \E e \in service.st.databases : e.id = 2
    /\ \A e \in service.st.databases : e.id # 1

\* ------------------------------------------------------------------------
\* Specifications
\* ------------------------------------------------------------------------
Init == PipelineInit /\ LoopInit /\ BridgeInit /\ StorageInit /\ FleetInit

\* routing and middleware (no mounts)
SpecDispatch == Init /\ [][NextDispatch]_vars

\* the static resolver in front of the router
SpecStatic == Init /\ [][NextStatic]_vars

\* one thread calling start() on a Bridge Instance, other programs on the ports
SpecBridge == Init /\ [][NextBridge]_vars

\* the same when the thread inside start() keeps running: every turn of
\* the poll loop sleeps 100 ms and its health request ends (connection
\* refused, an answer, or the 2 s receive timeout)
SpecBridgeLive ==
    /\ Init /\ [][NextBridge]_vars
    /\ WF_vars(StartLaunch(MainCaller))
    /\ WF_vars(StartPoll(MainCaller, HealthPolls))
    /\ WF_vars(StartFail(MainCaller))

\* two threads calling start() on one Bridge Instance
SpecBridgeRace == Init /\ [][NextBridgeRace]_vars

\* one thread opening and closing Data Handles on one Bridge Instance
SpecStorage == Init /\ [][NextStorage]_vars

\* one thread running statements on Data Handles of the default database
SpecStatements == Init /\ [][NextStatements]_vars

\* one thread opening the default database several times, running
\* statements and closing handles
SpecShared == Init /\ [][NextShared]_vars

\* one companion process and two clients sending requests concurrently
SpecService == Init /\ [][NextService]_vars

\* one thread querying Data Handles of the default database
SpecQuery == Init /\ [][NextQuery]_vars

\* two logical servers opening and closing databases
SpecFleet == Init /\ [][NextFleet]_vars

\* the accept loop, with a caller of stop() outside it
SpecLoop == Init /\ [][NextLoop]_vars

\* the accept loop when the thread inside run() keeps running: select()
\* waits one second at most, the read of handle_client five
SpecLoopLive == Init /\ [][NextLoop]_vars /\ WF_vars(RunStep)

\* one route, short patterns against short paths
SpecMatch == Init /\ [][NextMatch]_vars

\* mount registrations with arbitrary directory strings (C31)
SpecMounts == Init /\ [][NextMounts]_vars

====
